---- MODULE Spec2Model ----
(***************************************************************************)
(* Per-Safe transaction sequencer of circles-core (src/src/utils.js):      *)
(* executeSafeTx / executeTokenSafeTx, waitForPendingTransactions and      *)
(* requestNonce running as cooperative async tasks over the shared         *)
(* transactionQueue, against a relayer and a ledger modelled as the        *)
(* environment.                                                            *)
(*                                                                         *)
(* TransactionQueue (~/common/queue) is imported by utils.js but its file  *)
(* is not part of the sources at hand; its methods are modelled from the   *)
(* description of the sequencer's data model (waiting line + lock).        *)
(*                                                                         *)
(* Environment: the relayer accepts a POST (tx "sent"), the ledger executes*)
(* it in nonce order (tx "mined", Safe nonce incremented) and the relayer  *)
(* then lists it as finished (tx "listed"); only listed transactions are   *)
(* returned by GET safes/<safe>/transactions.                              *)
(*                                                                         *)
(* The poller loop (~/common/loop) is likewise imported but not part of    *)
(* the sources at hand; PollSpec models one invocation of it from the      *)
(* description of the poller (attempt, predicate, interval, timeout).      *)
(*                                                                         *)
(* ApiSpec models one call of safe.updateToLastVersion, safe.deploySafe    *)
(* (src/src/safe.js and the funded variant of src/unnamed/part_000),       *)
(* organization.prefund or organization.getMembers                         *)
(* (src/src/organization.js). utils.sendTransaction, safe.sendTransaction, *)
(* trust.addConnection and utils.requestIndexedDB are calls into code that *)
(* is not part of the sources at hand: each either resolves or rejects.    *)
(***************************************************************************)
EXTENDS Integers, Sequences, FiniteSets, TLC

\* ---- bounds -------------------------------------------------------------
NumProcs == 3
NumKeys == 2
MaxStartNonce == 10
MaxValue == 2
MaxInterval == 2
MaxTimeout == 5
MaxActionTime == 1
MaxRetries == 2
MaxTrusts == 4
MaxBalance == 2
MaxGas == 1
MaxCallsAgain == 1
MaxOwners == 2
MaxSafes == 2

Procs == 1..NumProcs
Keys == 1..NumKeys
StartNonces == (MaxStartNonce - 1)..MaxStartNonce

NoTicket == 0
NoLock == [ticketId |-> 0, txHash |-> 0, nonce |-> 0]
NoKey == 0

VARIABLES
  queues,        \* transactionQueue: waiting line of ticket ids per Safe
  locks,         \* transactionQueue: lock record per Safe (NoLock if unlocked)
  lastTicketId,  \* transactionQueue: last ticket id handed out
  pc,            \* position of each executeSafeTx/executeTokenSafeTx call
  kind,          \* "safe" = executeSafeTx, "token" = executeTokenSafeTx
  safeAddress,   \* the call's options.safeAddress
  ticketId,      \* the call's ticketId (NoTicket before queue())
  current,       \* lock record read by the call's pending poll attempt
  nonce,         \* the call's nonce from requestNonce
  result,        \* what the call returned or threw
  txs,           \* relayer: accepted transactions, txHash -> [key, nonce, status]
  chainNonce,    \* ledger: Safe contract nonce() per Safe
  admitted,      \* history: tickets in the order their turn wait returned
  lockLog,       \* history: records passed to lockTransaction, per Safe
  answered,      \* history: <<t, w>>: waiter w's query for locked ticket t returned one result
  late,          \* history: <<t, w, h>>: that answer came when ticket h held the lock, not t
  underfunded,   \* history: a funds wait returned on a balance below the gas estimate
  req,           \* one call of requestNonce: what the relayer and the Safe answer, and the return
  poll,          \* one invocation of loop(action, predicate, options)
  op,            \* one call of a safe / organization function: position and locals
  sent,          \* transactions the call handed over, in order, with their outcome
  world          \* what the ledger answers: Safe version, deployed, hub limit

seqVars == <<queues, locks, lastTicketId, pc, kind, safeAddress, ticketId, current,
             nonce, result, txs, chainNonce, admitted, lockLog, answered,
             late, underfunded>>

\* state of the calls that do not go through the sequencer
nonceVars == <<req>>
pollVars == <<poll>>
callVars == <<op, sent, world>>
modVars == <<nonceVars, pollVars, callVars>>

vars == <<seqVars, modVars>>

queueVars == <<queues, locks, lastTicketId>>
envVars == <<txs, chainNonce>>
histVars == <<admitted, lockLog, answered, late, underfunded>>

\* ---- TransactionQueue ---------------------------------------------------
isLocked(l, key) == l[key] # NoLock

getCurrentTransaction(l, key) == l[key]

isNextInQueue(q, key, t) == Len(q[key]) > 0 /\ Head(q[key]) = t

lockTransaction(l, key, rec) == [l EXCEPT ![key] = rec]

\* slip: unlockTransaction clears the lock whichever ticket holds it
unlockTransactionAnyOwner(l, key, t) == [l EXCEPT ![key] = NoLock]

unlockTransaction(l, key, t) ==
  IF isLocked(l, key) /\ l[key].ticketId = t THEN [l EXCEPT ![key] = NoLock] ELSE l

RECURSIVE Without(_, _)
Without(s, t) ==
  IF s = <<>> THEN <<>>
  ELSE IF Head(s) = t THEN Tail(s)
  ELSE <<Head(s)>> \o Without(Tail(s), t)

\* slip: queue() hands out the id of the ticket issued before again
queueReusesId(q, key, t) == [q EXCEPT ![key] = Append(@, IF t > 1 THEN t - 1 ELSE t)]

queue(q, key, t) == [q EXCEPT ![key] = Append(@, t)]

unqueue(q, key, t) == [q EXCEPT ![key] = Without(@, t)]

\* ---- relayer / ledger ---------------------------------------------------
Hashes == 1..NumProcs
NoTx == [key |-> NoKey, nonce |-> 0, status |-> "none"]

Listed(key) == {h \in Hashes : txs[h].key = key /\ txs[h].status = "listed"}

\* GET safes/<safe>/transactions?limit=1&ethereum_tx__tx_hash=..&nonce=..
ConfirmationResults(key, h, n) ==
  {x \in Listed(key) : x = h /\ txs[x].nonce = n}

\* GET safes/<safe>/transactions?limit=1 : the latest listed transaction
LatestListed(key) ==
  {h \in Listed(key) : \A g \in Listed(key) : txs[g].nonce <= txs[h].nonce}



\* ---- requestNonce -------------------------------------------------------
\* a string of decimal digits is the sequence of its digits
RECURSIVE Decimal(_)
\* `${n}`
Decimal(n) == IF n < 10 THEN <<n>> ELSE Decimal(n \div 10) \o <<n % 10>>

RECURSIVE parseInt(_)
\* parseInt(s, 10)
parseInt(s) ==
  IF Len(s) = 1 THEN s[1]
  ELSE 10 * parseInt(SubSeq(s, 1, Len(s) - 1)) + s[Len(s)]

\* the relayer's answer to GET safes/<safe>/transactions?limit=1
\* (ok = FALSE: the request threw)
LatestResponse(key, relayerFails) ==
  [ok |-> ~relayerFails,
   results |-> IF LatestListed(key) = {} THEN <<>>
               ELSE <<[nonce |-> Decimal(txs[CHOOSE h \in LatestListed(key) : TRUE].nonce)]>>]

\* requestNonce falls back to the Safe contract's nonce()
UsesFallback(response) == ~response.ok \/ Len(response.results) = 0

\* slip: the increment is applied to the string: "9" + 1 is "91"
nonceReturnedNoParse(response, contractNonce) ==
  IF UsesFallback(response) THEN contractNonce
  ELSE response.results[1].nonce \o <<1>>

\* the string requestNonce returns for the relayer's answer and the
\* string returned by the contract's nonce()
nonceReturned(response, contractNonce) ==
  IF UsesFallback(response) THEN contractNonce
  ELSE Decimal(parseInt(response.results[1].nonce) + 1)

\* slip: the latest relayer nonce is returned without the increment
requestNonceNoIncrement(key, relayerFails) ==
  IF ~relayerFails /\ LatestListed(key) # {}
    THEN txs[CHOOSE h \in LatestListed(key) : TRUE].nonce
    ELSE chainNonce[key]

\* nonce returned by requestNonce, as the number the returned string
\* denotes; relayerFails = the relayer query threw
requestNonce(key, relayerFails) ==
  IF ~relayerFails /\ LatestListed(key) # {}
    THEN txs[CHOOSE h \in LatestListed(key) : TRUE].nonce + 1
    ELSE chainNonce[key]

\* ---- waitForPendingTransactions: one poll attempt -----------------------
\* slip: the unlocked branch answers ready without looking at the line
TurnReadyAlways(key, t) == TRUE

\* the attempt's answer when the Safe is not locked
TurnReady(key, t) == isNextInQueue(queues, key, t)

\* slip: any answer of the relayer counts as finished
FinishedOnAnyAnswer(results) == Cardinality(results) >= 0

\* does the relayer's answer make the waiter retire the locked transaction
Finished(results) == Cardinality(results) = 1

\* slip: the finished transaction is unqueued but the lock is kept
AnswerLocksKept(l, key, t, results) == l

\* the lock after the relayer's answer (unlockTransaction if finished)
AnswerLocks(l, key, t, results) ==
  IF Finished(results) THEN unlockTransaction(l, key, t) ELSE l

\* the waiting line after the relayer's answer (unqueue if finished)
AnswerQueues(q, key, t, results) ==
  IF Finished(results) THEN unqueue(q, key, t) ELSE q

\* ---- failure path of the POST ------------------------------------------
\* slip: the failure path clears the lock of every Safe
FailureLocksAllSafes(l, key, t) == [k \in DOMAIN l |-> NoLock]

FailureLocks(l, key, t) == unlockTransaction(l, key, t)

\* slip: the failed ticket is left in the waiting line
FailureQueuesKept(q, key, t) == q

FailureQueues(q, key, t) == unqueue(q, key, t)

\* ---- executeSafeTx: funds wait --------------------------------------------
\* toBN(dataGas).add(new BN(safeTxGas)).mul(new BN(gasPrice))
totalGasEstimate(dataGas, safeTxGas, gasPrice) == (dataGas + safeTxGas) * gasPrice

\* slip: the funds wait returns on the first balance it reads
FundsSufficeAlways(balance, estimate) == TRUE

\* predicate of the funds loop: toBN(balance).gte(totalGasEstimate)
FundsSuffice(balance, estimate) == balance >= estimate

\* Safes are numbered in the order in which calls first use them
CanUse(key) == \A k \in Keys : k < key => \E q \in Procs : safeAddress[q] = k

\* calls are numbered in the order in which they are made
CanStart(p) == pc[p] = "start" /\ \A q \in Procs : q < p => pc[q] # "start"

\* ---- loop(action, predicate, options) -----------------------------------
Values == 1..MaxValue
Labels == {"Waiting for CRC Safe to upgrade version",
           "Wait for newly added address to show up as Safe owner"}
NoTimeout == 0
NoValue == 0
NoError == [name |-> "none", label |-> ""]

\* attempts one invocation may make in the model
AttemptCap == MaxTimeout + 2

IdlePoll ==
  [state |-> "Idle", intervalMs |-> 0, timeoutMs |-> NoTimeout, label |-> "",
   predicate |-> {}, elapsed |-> 0, attempts |-> 0, threw |-> 0,
   satisfying |-> 0, lastStart |-> 0, result |-> NoValue, error |-> NoError,
   invocation |-> 0]

\* slip: the predicate's verdict is ignored, the first result is returned
SatisfiesAnything(predicate, value) == TRUE

\* predicate(result)
Satisfies(predicate, value) == value \in predicate

\* slip: the deadline is never looked at
DeadlineIgnored(pl) == FALSE

\* the configured deadline has passed
DeadlinePassed(pl) == pl.timeoutMs # NoTimeout /\ pl.elapsed > pl.timeoutMs

\* the poller after an attempt whose action returned value, taking d
\* (attempts, threw, satisfying, lastStart: history of the invocation)
AfterResult(pl, value, d) ==
  LET at == [pl EXCEPT !.elapsed = @ + d, !.attempts = @ + 1,
                       !.lastStart = pl.elapsed,
                       !.satisfying = IF value \in pl.predicate THEN @ + 1 ELSE @]
  IN IF Satisfies(pl.predicate, value)
       THEN [at EXCEPT !.state = "Satisfied", !.result = value]
       ELSE [at EXCEPT !.state = "Retrying"]

\* the poller after an attempt whose action threw, taking d: "not yet"
AfterThrow(pl, d) ==
  [pl EXCEPT !.state = "Retrying", !.elapsed = @ + d, !.attempts = @ + 1,
             !.threw = @ + 1, !.lastStart = pl.elapsed]

\* ---- requestNonce: before the call ---------------------------------------
NoString == <<>>
IdleReq == [state |-> "idle", response |-> [ok |-> FALSE, results |-> <<>>],
            contract |-> NoString, contractThrows |-> FALSE, value |-> NoString]

\* slip: the next attempt is started at once, without the interval
AfterWaitNoDelay(pl) == [pl EXCEPT !.state = "Attempting"]

\* the poller after the wait of intervalMs between two attempts
AfterWait(pl) == [pl EXCEPT !.state = "Attempting", !.elapsed = @ + pl.intervalMs]

\* ---- safe / organization calls: before the call -------------------------
IdleOp == [fn |-> "none", pc |-> "idle", result |-> "pending"]
UnknownWorld == [version |-> "", deployed |-> FALSE, limit |-> "",
                 isOrganization |-> FALSE, hasToken |-> FALSE, balance |-> 0]

\* ---- initial state ------------------------------------------------------
Init ==
  /\ queues = [k \in Keys |-> <<>>]
  /\ locks = [k \in Keys |-> NoLock]
  /\ lastTicketId = 0
  /\ pc = [p \in Procs |-> "start"]
  /\ kind = [p \in Procs |-> "none"]
  /\ safeAddress = [p \in Procs |-> NoKey]
  /\ ticketId = [p \in Procs |-> NoTicket]
  /\ current = [p \in Procs |-> NoLock]
  /\ nonce = [p \in Procs |-> 0]
  /\ result = [p \in Procs |-> "pending"]
  /\ txs = [h \in Hashes |-> NoTx]
  /\ \E n \in StartNonces : chainNonce = [k \in Keys |-> n]
  /\ admitted = [k \in Keys |-> <<>>]
  /\ lockLog = [k \in Keys |-> <<>>]
  /\ answered = {}
  /\ late = {}
  /\ underfunded = FALSE
  /\ req = IdleReq
  /\ poll = IdlePoll
  /\ op = IdleOp
  /\ sent = <<>>
  /\ world = UnknownWorld

\* ---- executeSafeTx / executeTokenSafeTx ---------------------------------
\* userToToken returned ZERO_ADDRESS: thrown before queue()
TokenNotFound(p) ==
  /\ CanStart(p)
  /\ kind' = [kind EXCEPT ![p] = "token"]
  /\ pc' = [pc EXCEPT ![p] = "threw"]
  /\ result' = [result EXCEPT ![p] = "TOKEN_NOT_FOUND"]
  /\ UNCHANGED <<queueVars, safeAddress, ticketId, current, nonce, envVars, histVars>>
  /\ UNCHANGED modVars

\* slip: the costs are estimated after queue(), the ticket is left behind
EstimateFailsAfterQueue(p) ==
  /\ CanStart(p)
  /\ \E key \in Keys, kd \in {"safe", "token"} :
       /\ CanUse(key)
       /\ safeAddress' = [safeAddress EXCEPT ![p] = key]
       /\ kind' = [kind EXCEPT ![p] = kd]
       /\ queues' = queue(queues, key, lastTicketId + 1)
  /\ lastTicketId' = lastTicketId + 1
  /\ ticketId' = [ticketId EXCEPT ![p] = lastTicketId + 1]
  /\ pc' = [pc EXCEPT ![p] = "threw"]
  /\ result' = [result EXCEPT ![p] = "RequestError"]
  /\ UNCHANGED <<locks, current, nonce, envVars, histVars>>
  /\ UNCHANGED modVars

\* estimateTransactionCosts threw: thrown before queue()
EstimateFails(p) ==
  /\ CanStart(p)
  /\ \E kd \in {"safe", "token"} : kind' = [kind EXCEPT ![p] = kd]
  /\ pc' = [pc EXCEPT ![p] = "threw"]
  /\ result' = [result EXCEPT ![p] = "RequestError"]
  /\ UNCHANGED <<queueVars, safeAddress, ticketId, current, nonce, envVars, histVars>>
  /\ UNCHANGED modVars

\* estimate returned; transactionQueue.queue(safeAddress) runs synchronously
Enqueue(p) ==
  /\ CanStart(p)
  /\ \E key \in Keys, kd \in {"safe", "token"} :
       /\ safeAddress' = [safeAddress EXCEPT ![p] = key]
       /\ kind' = [kind EXCEPT ![p] = kd]
       /\ CanUse(key)
       /\ queues' = queue(queues, key, lastTicketId + 1)
       /\ pc' = [pc EXCEPT ![p] = IF kd = "safe" THEN "funds" ELSE "wait"]
  /\ lastTicketId' = lastTicketId + 1
  /\ ticketId' = [ticketId EXCEPT ![p] = lastTicketId + 1]
  /\ UNCHANGED <<locks, current, nonce, result, envVars, histVars>>
  /\ UNCHANGED modVars

\* executeSafeTx: a poll attempt of the funds loop reads a balance of the
\* Safe that is >= totalGasEstimate; the loop returns
FundsReady(p) ==
  /\ pc[p] = "funds"
  /\ \E balance \in 0..MaxBalance, dataGas, safeTxGas, gasPrice \in 0..MaxGas :
       /\ FundsSuffice(balance, totalGasEstimate(dataGas, safeTxGas, gasPrice))
       /\ underfunded' = (underfunded \/ balance < (dataGas + safeTxGas) * gasPrice)
  /\ pc' = [pc EXCEPT ![p] = "wait"]
  /\ UNCHANGED <<queueVars, kind, safeAddress, ticketId, current, nonce, result,
                 envVars, admitted, lockLog, answered, late>>
  /\ UNCHANGED modVars

\* poll attempt, Safe not locked and own ticket is next: the wait returns
Admit(p) ==
  /\ pc[p] = "wait"
  /\ ~isLocked(locks, safeAddress[p])
  /\ TurnReady(safeAddress[p], ticketId[p])
  /\ pc' = [pc EXCEPT ![p] = "nonce"]
  /\ admitted' = [admitted EXCEPT ![safeAddress[p]] = Append(@, ticketId[p])]
  /\ UNCHANGED <<queueVars, kind, safeAddress, ticketId, current, nonce, result,
                 envVars, lockLog, answered, late, underfunded>>
  /\ UNCHANGED modVars

\* poll attempt, Safe locked: read the lock and ask the relayer (suspends)
AskRelayer(p) ==
  /\ pc[p] = "wait"
  /\ isLocked(locks, safeAddress[p])
  /\ current' = [current EXCEPT ![p] = getCurrentTransaction(locks, safeAddress[p])]
  /\ pc' = [pc EXCEPT ![p] = "query"]
  /\ UNCHANGED <<queueVars, kind, safeAddress, ticketId, nonce, result,
                 envVars, histVars>>
  /\ UNCHANGED modVars

\* the relayer answered the confirmation query
RelayerAnswers(p) ==
  /\ pc[p] = "query"
  /\ LET key == safeAddress[p]
         cur == current[p]
         res == ConfirmationResults(key, cur.txHash, cur.nonce)
     IN /\ locks' = AnswerLocks(locks, key, cur.ticketId, res)
        /\ queues' = AnswerQueues(queues, key, cur.ticketId, res)
        /\ answered' = IF Cardinality(res) = 1
                          THEN answered \cup {<<cur.ticketId, ticketId[p]>>}
                          ELSE answered
        /\ late' = IF Cardinality(res) = 1 /\ isLocked(locks, key)
                        /\ locks[key].ticketId # cur.ticketId
                     THEN late \cup {<<cur.ticketId, ticketId[p], locks[key].ticketId>>}
                     ELSE late
  /\ current' = [current EXCEPT ![p] = NoLock]
  /\ pc' = [pc EXCEPT ![p] = "wait"]
  /\ UNCHANGED <<lastTicketId, kind, safeAddress, ticketId, nonce, result,
                 envVars, admitted, lockLog, underfunded>>
  /\ UNCHANGED modVars

\* the confirmation query threw: caught, attempt answers false
RelayerQueryFails(p) ==
  /\ pc[p] = "query"
  /\ current' = [current EXCEPT ![p] = NoLock]
  /\ pc' = [pc EXCEPT ![p] = "wait"]
  /\ UNCHANGED <<queueVars, kind, safeAddress, ticketId, nonce, result,
                 envVars, histVars>>
  /\ UNCHANGED modVars

\* requestNonce returned; typed data signed; POST sent (suspends)
GetNonce(p) ==
  /\ pc[p] = "nonce"
  /\ \E relayerFails \in BOOLEAN :
       nonce' = [nonce EXCEPT ![p] = requestNonce(safeAddress[p], relayerFails)]
  /\ pc' = [pc EXCEPT ![p] = "post"]
  /\ UNCHANGED <<queueVars, kind, safeAddress, ticketId, current, result,
                 envVars, histVars>>
  /\ UNCHANGED modVars

\* requestNonce: fallback Safe contract nonce().call() threw; not caught
NonceThrows(p) ==
  /\ pc[p] = "nonce"
  /\ pc' = [pc EXCEPT ![p] = "threw"]
  /\ result' = [result EXCEPT ![p] = "CallError"]
  /\ UNCHANGED <<queueVars, kind, safeAddress, ticketId, current, nonce,
                 envVars, histVars>>
  /\ UNCHANGED modVars

\* POST accepted by the relayer: lockTransaction, return txHash
PostAccepted(p) ==
  /\ pc[p] = "post"
  /\ LET key == safeAddress[p]
         h == ticketId[p]
         rec == [ticketId |-> ticketId[p], txHash |-> h, nonce |-> nonce[p]]
     IN /\ txs' = [txs EXCEPT ![h] = [key |-> key, nonce |-> nonce[p], status |-> "sent"]]
        /\ locks' = lockTransaction(locks, key, rec)
        /\ lockLog' = [lockLog EXCEPT ![key] = Append(@, rec)]
  /\ pc' = [pc EXCEPT ![p] = "done"]
  /\ result' = [result EXCEPT ![p] = "txHash"]
  /\ UNCHANGED <<queues, lastTicketId, kind, safeAddress, ticketId, current, nonce,
                 chainNonce, admitted, answered, late, underfunded>>
  /\ UNCHANGED modVars

\* POST rejected: catch block unlocks, unqueues the own ticket, returns null
PostRejected(p) ==
  /\ pc[p] = "post"
  /\ locks' = FailureLocks(locks, safeAddress[p], ticketId[p])
  /\ queues' = FailureQueues(queues, safeAddress[p], ticketId[p])
  /\ pc' = [pc EXCEPT ![p] = "done"]
  /\ result' = [result EXCEPT ![p] = "null"]
  /\ UNCHANGED <<lastTicketId, kind, safeAddress, ticketId, current, nonce,
                 envVars, histVars>>
  /\ UNCHANGED modVars

\* ---- environment --------------------------------------------------------
\* the ledger executes a sent transaction whose nonce is the Safe's nonce
Mine(h) ==
  /\ txs[h].status = "sent"
  /\ txs[h].nonce = chainNonce[txs[h].key]
  /\ txs' = [txs EXCEPT ![h].status = "mined"]
  /\ chainNonce' = [chainNonce EXCEPT ![txs[h].key] = @ + 1]
  /\ UNCHANGED <<queueVars, pc, kind, safeAddress, ticketId, current, nonce,
                 result, histVars>>
  /\ UNCHANGED modVars

\* the relayer lists an executed transaction
List(h) ==
  /\ txs[h].status = "mined"
  /\ txs' = [txs EXCEPT ![h].status = "listed"]
  /\ UNCHANGED <<queueVars, pc, kind, safeAddress, ticketId, current, nonce,
                 result, chainNonce, histVars>>
  /\ UNCHANGED modVars

Next ==
  \/ \E p \in Procs : TokenNotFound(p)
  \/ \E p \in Procs : EstimateFails(p)
  \/ \E p \in Procs : Enqueue(p)
  \/ \E p \in Procs : FundsReady(p)
  \/ \E p \in Procs : Admit(p)
  \/ \E p \in Procs : AskRelayer(p)
  \/ \E p \in Procs : RelayerAnswers(p)
  \/ \E p \in Procs : RelayerQueryFails(p)
  \/ \E p \in Procs : GetNonce(p)
  \/ \E p \in Procs : NonceThrows(p)
  \/ \E p \in Procs : PostAccepted(p)
  \/ \E p \in Procs : PostRejected(p)
  \/ \E h \in Hashes : Mine(h)
  \/ \E h \in Hashes : List(h)

Spec == Init /\ [][Next]_vars

\* fair scheduling: the event loop runs every continuation that is ready
\* (a poll attempt, requestNonce, the POST and its outcome), a relayer query
\* that is repeated is answered again and again, and the ledger and the
\* relayer process every transaction they accepted. Not assumed: that the
\* balance read by the funds wait ever suffices.
Fairness ==
  /\ \A p \in Procs :
       WF_vars(Admit(p) \/ AskRelayer(p) \/ GetNonce(p)
                 \/ PostAccepted(p) \/ PostRejected(p))
  /\ \A p \in Procs : SF_vars(RelayerAnswers(p))
  /\ \A h \in Hashes : WF_vars(Mine(h) \/ List(h))

\* the calls of one Safe: lines and locks of different Safes are independent,
\* so progress on a Safe is studied with every caller on the same Safe
EnqueueOnFirst(p) == Enqueue(p) /\ safeAddress'[p] = 1

OneSafeNext ==
  \/ \E p \in Procs : TokenNotFound(p)
  \/ \E p \in Procs : EstimateFails(p)
  \/ \E p \in Procs : EnqueueOnFirst(p)
  \/ \E p \in Procs : FundsReady(p)
  \/ \E p \in Procs : Admit(p)
  \/ \E p \in Procs : AskRelayer(p)
  \/ \E p \in Procs : RelayerAnswers(p)
  \/ \E p \in Procs : RelayerQueryFails(p)
  \/ \E p \in Procs : GetNonce(p)
  \/ \E p \in Procs : NonceThrows(p)
  \/ \E p \in Procs : PostAccepted(p)
  \/ \E p \in Procs : PostRejected(p)
  \/ \E h \in Hashes : Mine(h)
  \/ \E h \in Hashes : List(h)

FairSpec == Init /\ [][OneSafeNext]_vars /\ Fairness

\* ---- one invocation of the poller ----------------------------------------
\* loop(action, predicate, options) is called
PollCall ==
  /\ poll.state = "Idle"
  /\ \E i \in 1..MaxInterval, t \in {NoTimeout} \cup (1..MaxTimeout),
        lb \in Labels, pr \in SUBSET Values :
       poll' = [poll EXCEPT !.state = "Attempting", !.intervalMs = i,
                            !.timeoutMs = t, !.label = lb, !.predicate = pr]
  /\ UNCHANGED <<seqVars, nonceVars, callVars>>

\* the deadline has passed: fail with the labelled timeout, no further attempt
PollTimesOut ==
  /\ poll.state = "Attempting"
  /\ DeadlinePassed(poll)
  /\ poll' = [poll EXCEPT !.state = "TimedOut",
                          !.error = [name |-> "TimeoutExceeded", label |-> poll.label]]
  /\ UNCHANGED <<seqVars, nonceVars, callVars>>

\* action() returns a value; the predicate decides
AttemptReturns ==
  /\ poll.state = "Attempting"
  /\ ~DeadlinePassed(poll)
  /\ \E v \in Values, d \in 0..MaxActionTime : poll' = AfterResult(poll, v, d)
  /\ UNCHANGED <<seqVars, nonceVars, callVars>>

\* action() throws: swallowed
AttemptThrows ==
  /\ poll.state = "Attempting"
  /\ ~DeadlinePassed(poll)
  /\ \E d \in 0..MaxActionTime : poll' = AfterThrow(poll, d)
  /\ UNCHANGED <<seqVars, nonceVars, callVars>>

\* wait intervalMs, then attempt again
PollWaits ==
  /\ poll.state = "Retrying"
  /\ poll.attempts < AttemptCap
  /\ poll' = AfterWait(poll)
  /\ UNCHANGED <<seqVars, nonceVars, callVars>>

PollNext ==
  \/ PollCall
  \/ PollTimesOut
  \/ AttemptReturns
  \/ AttemptThrows
  \/ PollWaits

PollSpec == Init /\ [][PollNext]_vars

\* the timer fires and every action() call completes
PollFairSpec == PollSpec /\ WF_vars(PollNext)

\* ---- invocations of the poller one after the other, and abandoned ones ------
\* slip: the clock of the invocation before is kept
NewPollKeepsClock(prev, i, t, lb, pr) ==
  [IdlePoll EXCEPT !.state = "Attempting", !.intervalMs = i, !.timeoutMs = t,
                   !.label = lb, !.predicate = pr, !.elapsed = prev.elapsed,
                   !.invocation = prev.invocation + 1]

\* a new invocation after the invocation prev: nothing of prev is kept
\* (invocation: history, the number of invocations made before)
NewPoll(prev, i, t, lb, pr) ==
  [IdlePoll EXCEPT !.state = "Attempting", !.intervalMs = i, !.timeoutMs = t,
                   !.label = lb, !.predicate = pr,
                   !.invocation = prev.invocation + 1]

\* the caller's context is abandoned while the poll is between two steps:
\* no further attempt is scheduled
PollAbandon ==
  /\ poll.state \in {"Attempting", "Retrying"}
  /\ poll' = [poll EXCEPT !.state = "Abandoned"]
  /\ UNCHANGED <<seqVars, nonceVars, callVars>>

\* loop(action, predicate, options) is called again after an invocation
\* ended, by the same call site with another interval and timeout
PollCallAgain ==
  /\ poll.state \in {"Satisfied", "TimedOut", "Abandoned"}
  /\ poll.invocation < MaxCallsAgain
  /\ \E i \in 1..MaxInterval, t \in {NoTimeout} \cup (1..MaxTimeout) :
       poll' = NewPoll(poll, i, t, poll.label, poll.predicate)
  /\ UNCHANGED <<seqVars, nonceVars, callVars>>

PollCallsNext ==
  \/ PollNext
  \/ PollAbandon
  \/ PollCallAgain

PollCallsSpec == Init /\ [][PollCallsNext]_vars

\* ---- one call of requestNonce ---------------------------------------------
\* nonces the relayer and the Safe contract may report
Nonces == 0..(MaxStartNonce + 1)

\* answers of the relayer: the request throws, or it returns the latest
\* transaction of the Safe, if there is one
Responses ==
  {[ok |-> FALSE, results |-> <<>>], [ok |-> TRUE, results |-> <<>>]}
    \cup {[ok |-> TRUE, results |-> <<[nonce |-> Decimal(n)]>>] : n \in Nonces}

\* requestNonce(web3, endpoint, safeAddress) is called
NonceCall ==
  /\ req.state # "called"
  /\ \E r \in Responses, n \in Nonces, t \in BOOLEAN :
       req' = [state |-> "called", response |-> r, contract |-> Decimal(n),
               contractThrows |-> t, value |-> NoString]
  /\ UNCHANGED <<seqVars, pollVars, callVars>>

\* the relayer's nonce plus one, or the contract's nonce, is returned
NonceReturns ==
  /\ req.state = "called"
  /\ UsesFallback(req.response) => ~req.contractThrows
  /\ req' = [req EXCEPT !.state = "returned",
                        !.value = nonceReturned(req.response, req.contract)]
  /\ UNCHANGED <<seqVars, pollVars, callVars>>

\* the fallback nonce().call() throws, outside the try/catch
NonceFallbackThrows ==
  /\ req.state = "called"
  /\ UsesFallback(req.response) /\ req.contractThrows
  /\ req' = [req EXCEPT !.state = "threw"]
  /\ UNCHANGED <<seqVars, pollVars, callVars>>

NonceNext ==
  \/ NonceCall
  \/ NonceReturns
  \/ NonceFallbackThrows

NonceSpec == Init /\ [][NonceNext]_vars

\* ---- safe / organization: shared pieces ----------------------------------
SAFE_LAST_VERSION == "1.3.0"
Versions == {"1.1.1+Circles", SAFE_LAST_VERSION}

\* a transaction is handed over (utils.sendTransaction, safe.sendTransaction,
\* trust.addConnection, sendSignedTransaction); the promise is pending
Send(tx, via) == Append(sent, [tx |-> tx, via |-> via, state |-> "pending"])

\* the pending promise of the last transaction resolves or rejects
Settle(state) == [sent EXCEPT ![Len(sent)].state = state]

NoCallYet == op.fn = "none"

\* ---- safe.updateToLastVersion -------------------------------------------
NeedsUpdate(safeVersion) == safeVersion # SAFE_LAST_VERSION

\* slip: the poll accepts any version
IsAnyVersion(version) == TRUE

\* predicate of the version poll
IsLastVersion(version) == version = SAFE_LAST_VERSION

UpdateCall ==
  /\ NoCallYet
  /\ \E v \in Versions : world' = [world EXCEPT !.version = v]
  /\ op' = [fn |-> "updateToLastVersion", pc |-> "getVersion", result |-> "pending",
            safeVersion |-> "", retries |-> 0]
  /\ UNCHANGED <<sent, seqVars, nonceVars, pollVars>>

\* await _getVersion(safeAddress) returned
UpdateGetVersion ==
  /\ op.fn = "updateToLastVersion" /\ op.pc = "getVersion"
  /\ op' = IF NeedsUpdate(world.version)
             THEN [op EXCEPT !.safeVersion = world.version, !.pc = "changeMasterCopy"]
             ELSE [op EXCEPT !.safeVersion = world.version, !.pc = "done",
                             !.result = world.version]
  /\ UNCHANGED <<sent, world, seqVars, nonceVars, pollVars>>

\* await _getVersion(safeAddress) rejected: the call throws
UpdateGetVersionThrows ==
  /\ op.fn = "updateToLastVersion" /\ op.pc = "getVersion"
  /\ op' = [op EXCEPT !.pc = "threw", !.result = "CallError"]
  /\ UNCHANGED <<sent, world, seqVars, nonceVars, pollVars>>

\* utils.sendTransaction with the changeMasterCopy data is called
UpdateSendMasterCopy ==
  /\ op.fn = "updateToLastVersion" /\ op.pc = "changeMasterCopy"
  /\ sent' = Send("changeMasterCopy", "relayer")
  /\ op' = [op EXCEPT !.pc = "awaitMasterCopy"]
  /\ UNCHANGED <<world, seqVars, nonceVars, pollVars>>

\* the awaited changeMasterCopy transaction resolved
UpdateMasterCopySent ==
  /\ op.fn = "updateToLastVersion" /\ op.pc = "awaitMasterCopy"
  /\ sent' = Settle("resolved")
  /\ op' = [op EXCEPT !.pc = "setFallbackHandler"]
  /\ UNCHANGED <<world, seqVars, nonceVars, pollVars>>

\* utils.sendTransaction with the setFallbackHandler data is called
UpdateSendFallbackHandler ==
  /\ op.fn = "updateToLastVersion" /\ op.pc = "setFallbackHandler"
  /\ sent' = Send("setFallbackHandler", "relayer")
  /\ op' = [op EXCEPT !.pc = "awaitFallbackHandler"]
  /\ UNCHANGED <<world, seqVars, nonceVars, pollVars>>

\* the awaited setFallbackHandler transaction resolved: the poll starts
UpdateFallbackHandlerSent ==
  /\ op.fn = "updateToLastVersion" /\ op.pc = "awaitFallbackHandler"
  /\ sent' = Settle("resolved")
  /\ op' = [op EXCEPT !.pc = "loop"]
  /\ UNCHANGED <<world, seqVars, nonceVars, pollVars>>

\* an awaited transaction rejected: the call throws
UpdateSendThrows ==
  /\ op.fn = "updateToLastVersion"
  /\ op.pc \in {"awaitMasterCopy", "awaitFallbackHandler"}
  /\ sent' = Settle("rejected")
  /\ op' = [op EXCEPT !.pc = "threw", !.result = "RequestError"]
  /\ UNCHANGED <<world, seqVars, nonceVars, pollVars>>

\* a poll attempt read a version the predicate accepts: the call returns it
UpdateLoopReturns ==
  /\ op.fn = "updateToLastVersion" /\ op.pc = "loop"
  /\ IsLastVersion(world.version)
  /\ op' = [op EXCEPT !.pc = "done", !.safeVersion = world.version,
                      !.result = world.version]
  /\ UNCHANGED <<sent, world, seqVars, nonceVars, pollVars>>

\* a poll attempt threw or read a version the predicate rejects: retry
UpdateLoopRetries ==
  /\ op.fn = "updateToLastVersion" /\ op.pc = "loop"
  /\ op.retries < MaxRetries
  /\ \E threw \in BOOLEAN : threw \/ ~IsLastVersion(world.version)
  /\ op' = [op EXCEPT !.retries = @ + 1]
  /\ UNCHANGED <<sent, world, seqVars, nonceVars, pollVars>>

\* ledger: the accepted changeMasterCopy transaction is executed
UpgradeApplies ==
  /\ op.fn = "updateToLastVersion"
  /\ world.version # SAFE_LAST_VERSION
  /\ \E i \in 1..Len(sent) :
       sent[i].tx = "changeMasterCopy" /\ sent[i].state = "resolved"
  /\ world' = [world EXCEPT !.version = SAFE_LAST_VERSION]
  /\ UNCHANGED <<op, sent, seqVars, nonceVars, pollVars>>

UpdateNext ==
  \/ UpdateCall
  \/ UpdateGetVersion
  \/ UpdateGetVersionThrows
  \/ UpdateSendMasterCopy
  \/ UpdateMasterCopySent
  \/ UpdateSendFallbackHandler
  \/ UpdateFallbackHandlerSent
  \/ UpdateSendThrows
  \/ UpdateLoopReturns
  \/ UpdateLoopRetries
  \/ UpgradeApplies

\* ---- safe.deploySafe ----------------------------------------------------
\* minimum number of trust connections for a relayed deployment in the
\* funded variant, and the error code of a sender without funds
DEFAULT_TRUST_LIMIT == 3
InsufficientFundsCode == -32003
ErrorCodes == {InsufficientFundsCode, -32000}

\* "relayed": src/src/safe.js, "funded": src/unnamed/part_000
Variants == {"relayed", "funded"}

AlreadyDeployedError(variant) ==
  IF variant = "relayed" THEN "SafeDeployedError" ELSE "SafeAlreadyDeployedError"

\* slip: the deployment goes on whether or not the address is deployed
MayDeployAlways(isSafeDeployed) == TRUE

MayDeploy(isSafeDeployed) == ~isSafeDeployed

\* slip: any trust network counts as trusted
IsTrustedAny(trusts) == trusts >= 0

\* trusts.length >= DEFAULT_TRUST_LIMIT
IsTrusted(trusts) == trusts >= DEFAULT_TRUST_LIMIT

DeployCall ==
  /\ NoCallYet
  /\ \E vr \in Variants, d \in BOOLEAN :
       /\ world' = [world EXCEPT !.deployed = d]
       /\ op' = [fn |-> "deploySafe", pc |-> "isDeployed", result |-> "pending",
                 variant |-> vr, code |-> 0, trusts |-> 0]
  /\ UNCHANGED <<sent, seqVars, nonceVars, pollVars>>

\* _predictAddress or _isDeployed rejected: the call throws
DeployCheckThrows ==
  /\ op.fn = "deploySafe" /\ op.pc = "isDeployed"
  /\ op' = [op EXCEPT !.pc = "threw", !.result = "CallError"]
  /\ UNCHANGED <<sent, world, seqVars, nonceVars, pollVars>>

\* the predicted address is deployed: throw the already-deployed error
DeployAlreadyDeployed ==
  /\ op.fn = "deploySafe" /\ op.pc = "isDeployed"
  /\ world.deployed
  /\ op' = [op EXCEPT !.pc = "threw", !.result = AlreadyDeployedError(op.variant)]
  /\ UNCHANGED <<sent, world, seqVars, nonceVars, pollVars>>

\* relayed variant: utils.sendTransaction with the createProxyWithNonce data
DeployRelay ==
  /\ op.fn = "deploySafe" /\ op.pc = "isDeployed" /\ op.variant = "relayed"
  /\ MayDeploy(world.deployed)
  /\ sent' = Send("createProxyWithNonce", "relayer")
  /\ op' = [op EXCEPT !.pc = "awaitRelay"]
  /\ UNCHANGED <<world, seqVars, nonceVars, pollVars>>

\* funded variant: the signed transaction is handed to sendSignedTransaction
DeployDirect ==
  /\ op.fn = "deploySafe" /\ op.pc = "isDeployed" /\ op.variant = "funded"
  /\ MayDeploy(world.deployed)
  /\ sent' = Send("createProxyWithNonce", "direct")
  /\ op' = [op EXCEPT !.pc = "awaitDirect"]
  /\ UNCHANGED <<world, seqVars, nonceVars, pollVars>>

\* funded variant: getTransactionCount or signTransaction rejected, nothing
\* was handed over; the catch handler runs with the error
DeployDirectNotSigned ==
  /\ op.fn = "deploySafe" /\ op.pc = "isDeployed" /\ op.variant = "funded"
  /\ MayDeploy(world.deployed)
  /\ \E c \in ErrorCodes : op' = [op EXCEPT !.pc = "catch", !.code = c]
  /\ UNCHANGED <<sent, world, seqVars, nonceVars, pollVars>>

\* funded variant: sendSignedTransaction resolved; the call returns
DeployDirectSent ==
  /\ op.fn = "deploySafe" /\ op.pc = "awaitDirect"
  /\ sent' = Settle("resolved")
  /\ op' = [op EXCEPT !.pc = "done", !.result = "safeAddress"]
  /\ UNCHANGED <<world, seqVars, nonceVars, pollVars>>

\* funded variant: sendSignedTransaction rejected; the catch handler runs
DeployDirectFails ==
  /\ op.fn = "deploySafe" /\ op.pc = "awaitDirect"
  /\ sent' = Settle("rejected")
  /\ \E c \in ErrorCodes : op' = [op EXCEPT !.pc = "catch", !.code = c]
  /\ UNCHANGED <<world, seqVars, nonceVars, pollVars>>

\* catch handler, any other error: rethrown
DeployRethrows ==
  /\ op.fn = "deploySafe" /\ op.pc = "catch"
  /\ op.code # InsufficientFundsCode
  /\ op' = [op EXCEPT !.pc = "threw", !.result = "DirectError"]
  /\ UNCHANGED <<sent, world, seqVars, nonceVars, pollVars>>

\* catch handler, code -32003: the trust network of the Safe is requested
DeployAsksTrusts ==
  /\ op.fn = "deploySafe" /\ op.pc = "catch"
  /\ op.code = InsufficientFundsCode
  /\ \E n \in 0..MaxTrusts : op' = [op EXCEPT !.pc = "trusts", !.trusts = n]
  /\ UNCHANGED <<sent, world, seqVars, nonceVars, pollVars>>

\* catch handler: the trust network request rejected
DeployAsksTrustsThrows ==
  /\ op.fn = "deploySafe" /\ op.pc = "catch"
  /\ op.code = InsufficientFundsCode
  /\ op' = [op EXCEPT !.pc = "threw", !.result = "RequestError"]
  /\ UNCHANGED <<sent, world, seqVars, nonceVars, pollVars>>

\* catch handler: fewer trusts than DEFAULT_TRUST_LIMIT
DeployNotTrusted ==
  /\ op.fn = "deploySafe" /\ op.pc = "trusts"
  /\ ~IsTrusted(op.trusts)
  /\ op' = [op EXCEPT !.pc = "threw", !.result = "SafeNotTrustError"]
  /\ UNCHANGED <<sent, world, seqVars, nonceVars, pollVars>>

\* catch handler: trusted, utils.sendTransaction with the same data
DeployFallbackRelay ==
  /\ op.fn = "deploySafe" /\ op.pc = "trusts"
  /\ IsTrusted(op.trusts)
  /\ sent' = Send("createProxyWithNonce", "relayer")
  /\ op' = [op EXCEPT !.pc = "awaitRelay"]
  /\ UNCHANGED <<world, seqVars, nonceVars, pollVars>>

\* the awaited utils.sendTransaction resolved; the call returns the address
DeployRelaySent ==
  /\ op.fn = "deploySafe" /\ op.pc = "awaitRelay"
  /\ sent' = Settle("resolved")
  /\ op' = [op EXCEPT !.pc = "done", !.result = "safeAddress"]
  /\ UNCHANGED <<world, seqVars, nonceVars, pollVars>>

\* the awaited utils.sendTransaction rejected; the call throws
DeployRelayThrows ==
  /\ op.fn = "deploySafe" /\ op.pc = "awaitRelay"
  /\ sent' = Settle("rejected")
  /\ op' = [op EXCEPT !.pc = "threw", !.result = "RequestError"]
  /\ UNCHANGED <<world, seqVars, nonceVars, pollVars>>

DeployNext ==
  \/ DeployCall
  \/ DeployCheckThrows
  \/ DeployAlreadyDeployed
  \/ DeployRelay
  \/ DeployDirect
  \/ DeployDirectNotSigned
  \/ DeployDirectSent
  \/ DeployDirectFails
  \/ DeployRethrows
  \/ DeployAsksTrusts
  \/ DeployAsksTrustsThrows
  \/ DeployNotTrusted
  \/ DeployFallbackRelay
  \/ DeployRelaySent
  \/ DeployRelayThrows

\* ---- organization.prefund -----------------------------------------------
\* hub.limits(to, from): percentages as decimal strings
Limits == {"0", "50", "100"}
Amounts == 0..MaxBalance

\* web3.utils.toBN(balance).gte(web3.utils.toBN(value))
SufficientFunds(balance, value) == balance >= value

\* slip: the wait accepts the first limit it reads
LimitReachedAny(trustLimit) == TRUE

\* predicate of the wait for the trust connection
LimitReached(trustLimit) == trustLimit = "100"

PrefundCall ==
  /\ NoCallYet
  /\ \E o \in BOOLEAN, t \in BOOLEAN, b \in Amounts, l \in Limits :
       world' = [world EXCEPT !.isOrganization = o, !.hasToken = t,
                              !.balance = b, !.limit = l]
  /\ \E v \in Amounts :
       op' = [fn |-> "prefund", pc |-> "organizations", result |-> "pending",
              value |-> v, trustLimit |-> "", retries |-> 0]
  /\ UNCHANGED <<sent, seqVars, nonceVars, pollVars>>

\* one of the three contract reads rejected: the call throws
PrefundReadThrows ==
  /\ op.fn = "prefund"
  /\ op.pc \in {"organizations", "userToToken", "balanceOf"}
  /\ op' = [op EXCEPT !.pc = "threw", !.result = "CallError"]
  /\ UNCHANGED <<sent, world, seqVars, nonceVars, pollVars>>

\* hub.organizations(to): throw if the target is not an organization
PrefundIsOrganization ==
  /\ op.fn = "prefund" /\ op.pc = "organizations"
  /\ op' = IF world.isOrganization
             THEN [op EXCEPT !.pc = "userToToken"]
             ELSE [op EXCEPT !.pc = "threw", !.result = "NOT_AN_ORGANIZATION"]
  /\ UNCHANGED <<sent, world, seqVars, nonceVars, pollVars>>

\* hub.userToToken(from): throw if it is ZERO_ADDRESS
PrefundHasToken ==
  /\ op.fn = "prefund" /\ op.pc = "userToToken"
  /\ op' = IF world.hasToken
             THEN [op EXCEPT !.pc = "balanceOf"]
             ELSE [op EXCEPT !.pc = "threw", !.result = "INSUFFICIENT_FUNDS (no token)"]
  /\ UNCHANGED <<sent, world, seqVars, nonceVars, pollVars>>

\* token.balanceOf(from): throw if it is below the value
PrefundHasFunds ==
  /\ op.fn = "prefund" /\ op.pc = "balanceOf"
  /\ op' = IF SufficientFunds(world.balance, op.value)
             THEN [op EXCEPT !.pc = "addConnection"]
             ELSE [op EXCEPT !.pc = "threw", !.result = "INSUFFICIENT_FUNDS (balance)"]
  /\ UNCHANGED <<sent, world, seqVars, nonceVars, pollVars>>

\* trust.addConnection(user: from, canSendTo: to) is called
PrefundAddConnection ==
  /\ op.fn = "prefund" /\ op.pc = "addConnection"
  /\ sent' = Send("addConnection", "relayer")
  /\ op' = [op EXCEPT !.pc = "awaitConnection"]
  /\ UNCHANGED <<world, seqVars, nonceVars, pollVars>>

\* the awaited trust.addConnection resolved: the wait for the limit starts
PrefundConnectionSent ==
  /\ op.fn = "prefund" /\ op.pc = "awaitConnection"
  /\ sent' = Settle("resolved")
  /\ op' = [op EXCEPT !.pc = "loop"]
  /\ UNCHANGED <<world, seqVars, nonceVars, pollVars>>

\* the awaited trust.addConnection rejected: the call throws
PrefundConnectionThrows ==
  /\ op.fn = "prefund" /\ op.pc = "awaitConnection"
  /\ sent' = Settle("rejected")
  /\ op' = [op EXCEPT !.pc = "threw", !.result = "RequestError"]
  /\ UNCHANGED <<world, seqVars, nonceVars, pollVars>>

\* a poll attempt read hub.limits(to, from) and the predicate accepts it
PrefundLoopReturns ==
  /\ op.fn = "prefund" /\ op.pc = "loop"
  /\ LimitReached(world.limit)
  /\ op' = [op EXCEPT !.pc = "transferThrough", !.trustLimit = world.limit]
  /\ UNCHANGED <<sent, world, seqVars, nonceVars, pollVars>>

\* a poll attempt threw or read a limit the predicate rejects: retry
PrefundLoopRetries ==
  /\ op.fn = "prefund" /\ op.pc = "loop"
  /\ op.retries < MaxRetries
  /\ \E threw \in BOOLEAN :
       /\ threw \/ ~LimitReached(world.limit)
       /\ op' = [op EXCEPT !.retries = @ + 1,
                           !.trustLimit = IF threw THEN @ ELSE world.limit]
  /\ UNCHANGED <<sent, world, seqVars, nonceVars, pollVars>>

\* ledger: the accepted trust transaction is executed
TrustApplies ==
  /\ op.fn = "prefund"
  /\ world.limit # "100"
  /\ \E i \in 1..Len(sent) : sent[i].tx = "addConnection" /\ sent[i].state = "resolved"
  /\ world' = [world EXCEPT !.limit = "100"]
  /\ UNCHANGED <<op, sent, seqVars, nonceVars, pollVars>>

\* safe.sendTransaction with the transferThrough data is called
PrefundTransfer ==
  /\ op.fn = "prefund" /\ op.pc = "transferThrough"
  /\ sent' = Send("transferThrough", "relayer")
  /\ op' = [op EXCEPT !.pc = "awaitTransfer"]
  /\ UNCHANGED <<world, seqVars, nonceVars, pollVars>>

\* the returned promise resolved with the relayer's response
PrefundTransferSent ==
  /\ op.fn = "prefund" /\ op.pc = "awaitTransfer"
  /\ sent' = Settle("resolved")
  /\ op' = [op EXCEPT !.pc = "done", !.result = "RelayResponse"]
  /\ UNCHANGED <<world, seqVars, nonceVars, pollVars>>

\* the returned promise rejected
PrefundTransferThrows ==
  /\ op.fn = "prefund" /\ op.pc = "awaitTransfer"
  /\ sent' = Settle("rejected")
  /\ op' = [op EXCEPT !.pc = "threw", !.result = "RequestError"]
  /\ UNCHANGED <<world, seqVars, nonceVars, pollVars>>

PrefundNext ==
  \/ PrefundCall
  \/ PrefundReadThrows
  \/ PrefundIsOrganization
  \/ PrefundHasToken
  \/ PrefundHasFunds
  \/ PrefundAddConnection
  \/ PrefundConnectionSent
  \/ PrefundConnectionThrows
  \/ PrefundLoopReturns
  \/ PrefundLoopRetries
  \/ TrustApplies
  \/ PrefundTransfer
  \/ PrefundTransferSent
  \/ PrefundTransferThrows

\* ---- organization.getMembers --------------------------------------------
\* an address is its value and the letter case it is written in; the graph
\* indexes ids in lower case
Lower(n) == [id |-> n, form |-> "lower"]

toChecksumAddress(address) == [address EXCEPT !.form = "checksum"]

\* the safes a user record can list: up to MaxSafes, organizations or not
SafeLists(o) ==
  UNION {[1..n -> {[id |-> Lower(<<o, i>>), organization |-> g] :
                     i \in 1..MaxSafes, g \in BOOLEAN}] : n \in 0..MaxSafes}

\* what requestIndexedDB('organization_status', owner) resolves to for the
\* o-th owner: nothing, a response without user, or the user with its safes
Indexed(o) ==
  {[kind |-> k, id |-> Lower(o), safes |-> <<>>] : k \in {"null", "nouser"}}
    \cup {[kind |-> "user", id |-> Lower(o), safes |-> sf] :
            sf \in {l \in SafeLists(o) : \A i \in DOMAIN l : l[i].id = Lower(<<o, i>>)}}

\* the values of the accumulator of results.reduce
Undefined == [kind |-> "undefined", list |-> <<>>]
TypeError == [kind |-> "TypeError", list |-> <<>>]
Array(l) == [kind |-> "list", list |-> l]

\* the inner reduce: checksummed ids of the safes that are not organizations
RECURSIVE NonOrganizations(_)
NonOrganizations(safes) ==
  IF safes = <<>> THEN <<>>
  ELSE IF ~Head(safes).organization
         THEN <<toChecksumAddress(Head(safes).id)>> \o NonOrganizations(Tail(safes))
         ELSE NonOrganizations(Tail(safes))

Member(res) ==
  [ownerAddress |-> toChecksumAddress(res.id),
   safeAddresses |-> NonOrganizations(res.safes)]

\* the outer reduce from the i-th result on: the callback returns nothing
\* for a result without user, and pushes to the accumulator otherwise
RECURSIVE Reduce(_, _, _)
Reduce(acc, results, i) ==
  IF i > Len(results) THEN acc
  ELSE IF results[i].kind \in {"null", "nouser"} THEN Reduce(Undefined, results, i + 1)
  ELSE IF acc.kind = "undefined" THEN TypeError
  ELSE Reduce(Array(Append(acc.list, Member(results[i]))), results, i + 1)

MembersCall ==
  /\ NoCallYet
  /\ \E n \in 0..MaxOwners :
       \E ix \in [1..n -> UNION {Indexed(o) : o \in 1..n}] :
         /\ \A o \in 1..n : ix[o] \in Indexed(o)
         /\ op' = [fn |-> "getMembers", pc |-> "getOwners", result |-> "pending",
                   indexed |-> ix, members |-> Undefined]
  /\ UNCHANGED <<sent, world, seqVars, nonceVars, pollVars>>

\* safe.getOwners resolved; one requestIndexedDB per owner is under way
MembersGetOwners ==
  /\ op.fn = "getMembers" /\ op.pc = "getOwners"
  /\ op' = [op EXCEPT !.pc = "requestIndexedDB"]
  /\ UNCHANGED <<sent, world, seqVars, nonceVars, pollVars>>

\* safe.getOwners rejected: the call throws
MembersGetOwnersThrows ==
  /\ op.fn = "getMembers" /\ op.pc = "getOwners"
  /\ op' = [op EXCEPT !.pc = "threw", !.result = "CallError"]
  /\ UNCHANGED <<sent, world, seqVars, nonceVars, pollVars>>

\* one of the requests rejected: Promise.all rejects, the call throws
MembersRequestThrows ==
  /\ op.fn = "getMembers" /\ op.pc = "requestIndexedDB"
  /\ Len(op.indexed) > 0
  /\ op' = [op EXCEPT !.pc = "threw", !.result = "RequestError"]
  /\ UNCHANGED <<sent, world, seqVars, nonceVars, pollVars>>

\* Promise.all resolved; the results are reduced and the call returns, or
\* throws the TypeError of the push
MembersReduce ==
  /\ op.fn = "getMembers" /\ op.pc = "requestIndexedDB"
  /\ LET acc == Reduce(Array(<<>>), op.indexed, 1)
     IN op' = IF acc = TypeError
                THEN [op EXCEPT !.pc = "threw", !.result = "TypeError"]
                ELSE [op EXCEPT !.pc = "done", !.result = "members", !.members = acc]
  /\ UNCHANGED <<sent, world, seqVars, nonceVars, pollVars>>

MembersNext ==
  \/ MembersCall
  \/ MembersGetOwners
  \/ MembersGetOwnersThrows
  \/ MembersRequestThrows
  \/ MembersReduce

ApiNext ==
  \/ UpdateNext
  \/ DeployNext
  \/ PrefundNext
  \/ MembersNext

ApiSpec == Init /\ [][ApiNext]_vars

\* ---- properties ----------------------------------------------------------
Range(seq) == {seq[i] : i \in 1..Len(seq)}

\* tickets handed out by queue() for a Safe
TicketsOf(key) == {ticketId[p] : p \in {q \in Procs : safeAddress[q] = key /\ ticketId[q] # NoTicket}}

\* the turn wait of ticket t on key has returned
PastWait(key, t) == t \in Range(admitted[key])

\* C1: per Safe, at most one call is past the return of
\* waitForPendingTransactions with its ticket not yet retired
OneOutstandingSubmission ==
  \A key \in Keys :
    Cardinality({t \in Range(queues[key]) : PastWait(key, t)}) <= 1

\* C1 witness: a call is past its turn wait, its ticket unretired, while
\* another call of the same Safe is polling
OneOutstandingWitness ==
  \E p, q \in Procs :
    /\ p # q /\ safeAddress[p] = safeAddress[q] /\ safeAddress[p] # NoKey
    /\ PastWait(safeAddress[p], ticketId[p])
    /\ ticketId[p] \in Range(queues[safeAddress[p]])
    /\ pc[q] \in {"wait", "query"}

\* C2: per Safe the turn waits return in the order of the queue() calls:
\* when ticket B's wait has returned, the wait of every ticket A of the same
\* Safe queued before B has returned earlier
FifoAdmission ==
  \A key \in Keys :
    /\ \A i, j \in 1..Len(admitted[key]) : i < j => admitted[key][i] < admitted[key][j]
    /\ \A b \in Range(admitted[key]) :
         \A a \in TicketsOf(key) : a < b => a \in Range(admitted[key])

\* C2 witness: two tickets of one Safe have both been admitted
FifoWitness ==
  \E key \in Keys : Len(admitted[key]) >= 2

\* C3: the nonces recorded by successive lockTransaction calls on a Safe
\* increase by exactly one from each lock to the next
NoNonceGapsOrCollisions ==
  \A key \in Keys :
    \A i \in 1..Len(lockLog[key]) :
      i > 1 => lockLog[key][i].nonce = lockLog[key][i - 1].nonce + 1

\* C3 witness: a Safe was locked twice, with a rejected POST in between
NonceWitness ==
  \E key \in Keys :
    /\ Len(lockLog[key]) >= 2
    /\ \E p \in Procs : /\ safeAddress[p] = key /\ result[p] = "null"
                        /\ lockLog[key][1].ticketId < ticketId[p]
                        /\ ticketId[p] < lockLog[key][2].ticketId

\* C4: a lock record's ticket is the head of the waiting line for as long as
\* the record exists, and a lock is only set by the head ticket of an
\* unlocked Safe
LockHeldByHead ==
  \A key \in Keys :
    isLocked(locks, key) => isNextInQueue(queues, key, locks[key].ticketId)

LockSetByHead ==
  \A key \in Keys :
    (locks'[key] # locks[key] /\ locks'[key] # NoLock)
      => /\ ~isLocked(locks, key)
         /\ isNextInQueue(queues, key, locks'[key].ticketId)

LockInvariant == [](LockHeldByHead) /\ [][LockSetByHead]_vars

\* C4 witness: a Safe is locked while other tickets wait behind the lock holder
LockWitness ==
  \E key \in Keys : isLocked(locks, key) /\ Len(queues[key]) >= 2

\* C5: a step in which a turn wait returns ends in a state where the
\* returning ticket is the head of the line and the Safe is unlocked
WaitReturns(p) == pc[p] \in {"wait", "query"} /\ pc'[p] \notin {"wait", "query"}

WaitReturnsOnlyAtHeadUnlocked ==
  [][\A p \in Procs :
       WaitReturns(p) =>
         /\ ~isLocked(locks', safeAddress[p])
         /\ isNextInQueue(queues', safeAddress[p], ticketId[p])]_vars

\* C5 witness: a wait has returned for a ticket that had to wait behind
\* an earlier ticket of the same Safe
WaitReturnsWitness ==
  \E p \in Procs :
    /\ pc[p] = "nonce"
    /\ \E t \in TicketsOf(safeAddress[p]) : t < ticketId[p]

\* the call that holds ticket t
Owner(t) == CHOOSE p \in Procs : ticketId[p] = t

\* C6: when a ticket B of a Safe has been admitted, every earlier ticket A
\* that locked the Safe had its recorded txHash and nonce answered by the
\* relayer with exactly one result, and A's transaction is finished
AdmissionAfterConfirmation ==
  \A key \in Keys :
    \A i \in 1..Len(lockLog[key]) :
      \A b \in Range(admitted[key]) :
        b > lockLog[key][i].ticketId =>
          /\ \E w \in TicketsOf(key) : <<lockLog[key][i].ticketId, w>> \in answered
          /\ ConfirmationResults(key, lockLog[key][i].txHash, lockLog[key][i].nonce) # {}

\* C6 witness: a ticket was admitted after an earlier ticket had locked the Safe
AdmissionAfterConfirmationWitness ==
  \E key \in Keys :
    /\ Len(lockLog[key]) >= 1
    /\ \E b \in Range(admitted[key]) : b > lockLog[key][1].ticketId

\* the ticket queued on key directly before ticket t
IsPredecessor(key, a, t) ==
  /\ a \in TicketsOf(key) /\ a < t
  /\ \A c \in TicketsOf(key) : c < t => c <= a

\* C7: after the POST of a ticket was rejected (no lock was ever set for it),
\* the ticket queued next on that Safe is the head of an unlocked Safe, so
\* its poll attempt answers ready without a relayer query
FailFast ==
  \A p, q \in Procs :
    ( /\ result[p] = "null" /\ pc[q] = "wait"
      /\ safeAddress[p] = safeAddress[q]
      /\ IsPredecessor(safeAddress[q], ticketId[p], ticketId[q]) )
    => /\ ~isLocked(locks, safeAddress[q])
       /\ isNextInQueue(queues, safeAddress[q], ticketId[q])
       /\ ENABLED Admit(q)
       /\ ~ENABLED AskRelayer(q)

\* C7 witness: a ticket's POST was rejected while the next ticket of the
\* Safe is between poll attempts
FailFastWitness ==
  \E p, q \in Procs :
    /\ result[p] = "null" /\ pc[q] = "wait"
    /\ safeAddress[p] = safeAddress[q]
    /\ IsPredecessor(safeAddress[q], ticketId[p], ticketId[q])

\* the scenario: tickets 1, 2, 3 on one Safe, ticket 1 locked with nonce 10,
\* ticket 2's query for ticket 1 answered with one result
Scenario(key) ==
  /\ {1, 2, 3} \subseteq TicketsOf(key)
  /\ Len(lockLog[key]) >= 1
  /\ lockLog[key][1].ticketId = 1
  /\ lockLog[key][1].nonce = 10
  /\ <<1, 2>> \in answered

\* C8: in the scenario ticket 1 is retired and its lock removed, ticket 2 is
\* the head of the line with ticket 3 not admitted for as long as ticket 2 is
\* in the line, and the nonce ticket 2 obtains and locks with is 11
ScenarioOutcome ==
  \A key \in Keys :
    Scenario(key) =>
      /\ 1 \notin Range(queues[key])
      /\ locks[key].ticketId # 1
      /\ 2 \in Range(queues[key]) =>
           /\ isNextInQueue(queues, key, 2)
           /\ 3 \in Range(queues[key])
           /\ ~PastWait(key, 3)
      /\ pc[Owner(2)] \in {"funds", "wait", "query", "nonce", "post"} =>
           ~isLocked(locks, key)
      /\ pc[Owner(2)] = "post" => nonce[Owner(2)] = 11
      /\ \A i \in 1..Len(lockLog[key]) :
           lockLog[key][i].ticketId = 2 => lockLog[key][i].nonce = 11

\* C8 witness: the scenario ran until ticket 2 locked, ticket 3 still waiting
ScenarioWitness ==
  \E key \in Keys :
    /\ Scenario(key)
    /\ locks[key].ticketId = 2
    /\ locks[key].nonce = 11
    /\ pc[Owner(3)] \in {"wait", "query"}

\* C9: every terminated call that enqueued a ticket has either recorded the
\* ticket as the Safe's lock or removed it from the waiting line
TerminatedCallSettlesTicket ==
  \A p \in Procs :
    (pc[p] \in {"done", "threw"} /\ ticketId[p] # NoTicket)
      => \/ locks[safeAddress[p]].ticketId = ticketId[p]
         \/ ticketId[p] \notin Range(queues[safeAddress[p]])

\* the call's POST was rejected by the relayer
Rejected(p) ==
  /\ pc[p] = "done"
  /\ \A i \in 1..Len(lockLog[safeAddress[p]]) :
       lockLog[safeAddress[p]][i].ticketId # ticketId[p]

\* C10 as stated: a rejected POST reaches the caller as a SubmissionRejected
\* failure
RejectionIsThrown ==
  \A p \in Procs : Rejected(p) => result[p] = "SubmissionRejected"

\* C10 amended: a rejected POST makes the call return null, and the step
\* that returns leaves the Safe unlocked and the call's ticket out of the line
RejectionReturnsNull ==
  [][\A p \in Procs :
       (pc[p] = "post" /\ Rejected(p)') =>
         /\ result'[p] = "null"
         /\ ~isLocked(locks', safeAddress[p])
         /\ ticketId[p] \notin Range(queues'[safeAddress[p]])]_vars

\* C10 witness: a call returned null while another ticket waits on the Safe
RejectionWitness ==
  \E p \in Procs :
    /\ Rejected(p) /\ result[p] = "null"
    /\ Len(queues[safeAddress[p]]) >= 1

\* C11: a step changes the waiting line or the lock of a Safe only if it is
\* a step of a call on that Safe, and a waiter whose ticket is the head of
\* an unlocked Safe can be admitted whatever the state of the other Safes
StepTouchesOwnSafeOnly ==
  \A key \in Keys :
    (queues'[key] # queues[key] \/ locks'[key] # locks[key])
      => \E p \in Procs : pc'[p] # pc[p] /\ safeAddress'[p] = key

AdmissionIgnoresOtherSafes ==
  \A q \in Procs :
    ( /\ pc[q] = "wait"
      /\ ~isLocked(locks, safeAddress[q])
      /\ isNextInQueue(queues, safeAddress[q], ticketId[q]) )
    => ENABLED Admit(q)

KeyIndependence == [][StepTouchesOwnSafeOnly]_vars /\ [](AdmissionIgnoresOtherSafes)

\* C11 witness: a Safe is locked by an unfinished transaction with a waiter
\* behind it, and a ticket queued later on another Safe has been admitted
KeyIndependenceWitness ==
  \E k1, k2 \in Keys :
    /\ k1 # k2
    /\ isLocked(locks, k1) /\ Len(queues[k1]) >= 2
    /\ ConfirmationResults(k1, locks[k1].txHash, locks[k1].nonce) = {}
    /\ \E b \in Range(admitted[k2]) : b > locks[k1].ticketId

\* C12: the poller returns only a result that satisfies the predicate, it
\* is the result of the first attempt that returned a satisfying result, and
\* an attempt whose action threw neither ends the poll nor reaches the caller
FirstSatisfyingResult ==
  /\ poll.state = "Satisfied" =>
       /\ poll.result \in poll.predicate
       /\ poll.satisfying = 1
  /\ poll.state # "Satisfied" =>
       /\ poll.result = NoValue
       /\ poll.satisfying = 0
  /\ poll.error.name \in {"none", "TimeoutExceeded"}
  /\ poll.error.name = "TimeoutExceeded" => DeadlinePassed(poll)

\* C12 witness: the poll returned after attempts that threw and attempts
\* that returned a result the predicate rejects
FirstSatisfyingWitness ==
  /\ poll.state = "Satisfied"
  /\ poll.threw >= 1
  /\ poll.attempts >= poll.threw + 2

\* C13: a poll with a timeout whose predicate is never satisfied reaches
\* TimedOut, failing with the timeout error that carries the call's label;
\* it returns no result, and no attempt starts after the deadline
BoundedPollTimesOut ==
  /\ [](( /\ poll.state # "Idle" /\ poll.timeoutMs # NoTimeout
          /\ poll.predicate = {} ) => <>(poll.state = "TimedOut"))
  /\ [](poll.state = "TimedOut" =>
          /\ poll.error = [name |-> "TimeoutExceeded", label |-> poll.label]
          /\ poll.result = NoValue)
  /\ [](poll.predicate = {} => poll.state # "Satisfied")
  /\ [](poll.timeoutMs # NoTimeout => poll.lastStart <= poll.timeoutMs)

\* C13 witness: a poll timed out after several attempts
BoundedPollWitness ==
  /\ poll.state = "TimedOut"
  /\ poll.predicate = {}
  /\ poll.attempts >= 2

\* the lock of key is held for a transaction the relayer does not list
LockedUnconfirmed(key) ==
  /\ isLocked(locks, key)
  /\ ConfirmationResults(key, locks[key].txHash, locks[key].nonce) = {}

\* the calls that wait on key behind the ticket that holds the lock
Waiters(key) ==
  {p \in Procs : /\ safeAddress[p] = key
                 /\ ticketId[p] \in Range(queues[key])
                 /\ ticketId[p] # locks[key].ticketId}

\* C14: the turn wait has no timeout: while the locked submission of a Safe
\* is not confirmed by the relayer, the lock stays, and every call waiting
\* on that Safe is still polling, was not admitted and received no error
UnboundedTurnWait ==
  /\ [](\A key \in Keys :
          LockedUnconfirmed(key) =>
            \A p \in Waiters(key) :
              /\ pc[p] \in {"funds", "wait", "query"}
              /\ result[p] = "pending"
              /\ ~PastWait(key, ticketId[p]))
  /\ [][\A key \in Keys :
          LockedUnconfirmed(key) =>
            /\ locks'[key] = locks[key]
            /\ \A p \in Waiters(key) : pc'[p] \in {"funds", "wait", "query"}]_vars

\* C14 witness: two calls poll behind a lock whose transaction the relayer
\* does not list, one of them suspended on its confirmation query
UnboundedTurnWaitWitness ==
  \E key \in Keys :
    /\ LockedUnconfirmed(key)
    /\ Cardinality(Waiters(key)) >= 2
    /\ \E p, q \in Waiters(key) : pc[p] = "query" /\ pc[q] = "wait"

\* the ticket ids in the waiting lines
Queued == UNION {Range(queues[key]) : key \in Keys}

\* the ticket ids that were issued and have left their waiting line
Removed == (1..lastTicketId) \ Queued

\* C15: ticket ids are handed out strictly increasing, a waiting line never
\* holds a ticket id twice, and a ticket id removed from its waiting line
\* is never in a waiting line or a lock again
TicketIdentity ==
  /\ [](\A key \in Keys :
          /\ Cardinality(Range(queues[key])) = Len(queues[key])
          /\ \A other \in Keys \ {key} : Range(queues[key]) \cap Range(queues[other]) = {}
          /\ isLocked(locks, key) => locks[key].ticketId \notin Removed)
  /\ [][/\ \A p \in Procs :
             ticketId'[p] # ticketId[p] =>
               /\ \A q \in Procs : ticketId'[p] > ticketId[q]
               /\ ticketId'[p] > lastTicketId
          /\ \A t \in Queued' \ Queued : t > lastTicketId /\ t \in Range(ticketId')
          /\ Removed \subseteq Removed']_vars

\* C15 witness: a ticket was removed from its waiting line, a later ticket
\* took the lock of the same Safe, and a still later one waits behind it
TicketIdentityWitness ==
  \E key \in Keys :
    /\ isLocked(locks, key)
    /\ Len(queues[key]) >= 2
    /\ \E t \in Removed : t < locks[key].ticketId /\ t \in Range(admitted[key])

\* the ticket ids a call can pass to the queue, issued or not
TicketIds == 0..NumProcs

\* a confirmation answer for a ticket that is no longer queued
StaleAnswer(p) ==
  /\ pc[p] = "query" /\ pc'[p] = "wait"
  /\ current[p].ticketId \notin Range(queues[safeAddress[p]])

\* C16: unlockTransaction and unqueue are idempotent: a second application
\* for the same Safe and ticket, or one for a ticket that does not hold the
\* lock or is not queued, leaves the lock and the waiting line as they were
RemovalIdempotent ==
  /\ [](\A key \in Keys, t \in TicketIds :
          LET l1 == unlockTransaction(locks, key, t)
              q1 == unqueue(queues, key, t)
          IN /\ unlockTransaction(l1, key, t) = l1
             /\ unqueue(q1, key, t) = q1
             /\ (~isLocked(locks, key) \/ locks[key].ticketId # t) => l1 = locks
             /\ t \notin Range(queues[key]) => q1 = queues
             /\ \A k \in Keys \ {key} : l1[k] = locks[k] /\ q1[k] = queues[k])
  /\ [][\A p \in Procs : StaleAnswer(p) => locks' = locks /\ queues' = queues]_vars

\* C16 witness: two waiters both got the finished answer for the same
\* ticket, so both removals ran twice, and a later ticket holds the lock
RemovalIdempotentWitness ==
  \E key \in Keys :
    \E a \in Removed, w1, w2 \in TicketsOf(key) :
      /\ w1 # w2
      /\ <<a, w1>> \in answered /\ <<a, w2>> \in answered
      /\ isLocked(locks, key) /\ locks[key].ticketId > a

\* the names of the transactions handed over so far, in order
SentNames == [i \in 1..Len(sent) |-> sent[i].tx]

\* every transaction handed over so far has resolved
AllResolved == \A i \in 1..Len(sent) : sent[i].state = "resolved"

\* a step hands over a transaction
Sends == Len(sent') > Len(sent)

\* C17: updateToLastVersion sends nothing when the version read is already
\* SAFE_LAST_VERSION; otherwise it sends changeMasterCopy, awaits it, sends
\* setFallbackHandler, awaits it, then polls; a returned version is always
\* SAFE_LAST_VERSION
UpdateSequence ==
  /\ [](op.fn = "updateToLastVersion" =>
          /\ SentNames \in {<<>>, <<"changeMasterCopy">>,
                            <<"changeMasterCopy", "setFallbackHandler">>}
          /\ op.pc = "loop" => Len(sent) = 2 /\ AllResolved
          /\ op.pc = "done" =>
               /\ op.result = SAFE_LAST_VERSION
               /\ Len(sent) \in {0, 2} /\ AllResolved)
  /\ [][(op.fn = "updateToLastVersion" /\ Sends) =>
          /\ op.safeVersion # SAFE_LAST_VERSION
          /\ AllResolved]_vars

\* C17 witness: the call returned after both transactions and a poll attempt
\* that did not yet read the last version
UpdateSequenceWitness ==
  /\ op.fn = "updateToLastVersion" /\ op.pc = "done"
  /\ Len(sent) = 2
  /\ op.retries >= 1

\* C18: deploySafe on a deployed address throws the already-deployed error
\* of its variant and hands over no transaction, direct or relayed; every
\* transaction it hands over is createProxyWithNonce for an address that is
\* not deployed, and only then does it return the predicted address
DeployOnlyUndeployed ==
  op.fn = "deploySafe" =>
    /\ world.deployed =>
         /\ sent = <<>>
         /\ op.pc \in {"isDeployed", "threw"}
         /\ op.pc = "threw" =>
              op.result \in {AlreadyDeployedError(op.variant), "CallError"}
    /\ sent # <<>> =>
         /\ ~world.deployed
         /\ \A i \in 1..Len(sent) : sent[i].tx = "createProxyWithNonce"
    /\ op.result \in {"SafeDeployedError", "SafeAlreadyDeployedError"} =>
         /\ world.deployed
         /\ op.result = AlreadyDeployedError(op.variant)
    /\ op.pc = "done" =>
         /\ op.result = "safeAddress"
         /\ ~world.deployed
         /\ sent # <<>> /\ sent[Len(sent)].state = "resolved"

\* C18 witness: a call on a deployed address has thrown the already-deployed
\* error
DeployOnlyUndeployedWitness ==
  /\ op.fn = "deploySafe" /\ op.pc = "threw"
  /\ world.deployed
  /\ op.result = AlreadyDeployedError(op.variant)

\* the three checks of prefund pass
ChecksPass ==
  /\ world.isOrganization
  /\ world.hasToken
  /\ world.balance >= op.value

\* C19: prefund hands over the trust connection and the transfer only if
\* the target is an organization, the funder has a token and the balance
\* covers the value; a failed check throws with nothing handed over, and
\* the transfer is handed over only after the limit was read as '100'
PrefundGuarded ==
  /\ [](op.fn = "prefund" =>
          /\ SentNames \in {<<>>, <<"addConnection">>,
                            <<"addConnection", "transferThrough">>}
          /\ sent # <<>> => ChecksPass
          /\ ~ChecksPass =>
               /\ op.pc \in {"organizations", "userToToken", "balanceOf", "threw"}
               /\ op.pc = "threw" =>
                    op.result \in {"NOT_AN_ORGANIZATION", "INSUFFICIENT_FUNDS (no token)",
                                   "INSUFFICIENT_FUNDS (balance)", "CallError"}
          /\ op.result = "NOT_AN_ORGANIZATION" => ~world.isOrganization
          /\ op.result = "INSUFFICIENT_FUNDS (no token)" => ~world.hasToken
          /\ op.result = "INSUFFICIENT_FUNDS (balance)" => world.balance < op.value
          /\ op.pc = "done" => Len(sent) = 2 /\ AllResolved)
  /\ [][(op.fn = "prefund" /\ Sends /\ sent # <<>>) =>
          /\ op.trustLimit = "100"
          /\ AllResolved]_vars

\* C19 witness: the transfer was handed over after the wait for the limit
\* had to retry at least once
PrefundGuardedWitness ==
  /\ op.fn = "prefund"
  /\ Len(sent) = 2
  /\ op.retries >= 1
  /\ op.value >= 1

\* the entries for the owners that have an indexed user record, in order
RECURSIVE MembersOf(_)
MembersOf(results) ==
  IF results = <<>> THEN <<>>
  ELSE IF Head(results).kind = "user"
         THEN <<Member(Head(results))>> \o MembersOf(Tail(results))
         ELSE MembersOf(Tail(results))

\* the results were reduced: the call returned, or threw out of the reduce
Reduced ==
  /\ op.fn = "getMembers"
  /\ op.pc = "done" \/ (op.pc = "threw" /\ op.result = "TypeError")

\* C20: getMembers returns one entry per owner with an indexed user record,
\* in owner order, each with that user's safes that are not organizations;
\* owners without a record are skipped
MembersListed ==
  Reduced => op.pc = "done" /\ op.members = Array(MembersOf(op.indexed))

\* the confirmation answer of waiter p's poll attempt lists exactly one result
FinishedAnswer(p) ==
  /\ pc[p] = "query"
  /\ <<current[p].ticketId, ticketId[p]>> \in answered' \ answered

AtomicEnqueue(key) ==
  /\ queues' = queue(queues, key, lastTicketId + 1)
  /\ locks' = locks

\* lock: the head of the unlocked line records its submission
AtomicLock(key) ==
  /\ ~isLocked(locks, key) /\ queues[key] # <<>>
  /\ isLocked(locks', key) /\ locks'[key].ticketId = Head(queues[key])
  /\ \A k \in Keys \ {key} : locks'[k] = locks[k]
  /\ queues' = queues

\* failure path: the head of the unlocked line is retired
AtomicRetire(key) ==
  /\ ~isLocked(locks, key) /\ queues[key] # <<>>
  /\ queues' = unqueue(queues, key, Head(queues[key]))
  /\ locks' = locks

\* one poll cycle without suspension: the lock is resolved against the
\* relayer and, if its transaction is finished, removed with its ticket
AtomicCycle(key) ==
  /\ isLocked(locks, key)
  /\ Finished(ConfirmationResults(key, locks[key].txHash, locks[key].nonce))
  /\ locks' = [locks EXCEPT ![key] = NoLock]
  /\ queues' = unqueue(queues, key, locks[key].ticketId)

AtomicNext ==
  \E key \in Keys :
    \/ AtomicEnqueue(key)
    \/ AtomicLock(key)
    \/ AtomicRetire(key)
    \/ AtomicCycle(key)

\* C22: every change the suspending poll cycle of the code makes to the
\* waiting lines and locks is a step of the atomic cycle, so the code
\* produces only histories of waiting and lock that the atomic cycle produces
AtomicCycleRefinement == [][AtomicNext]_<<queues, locks>>

\* C22 witness: a confirmation answer arrived after its ticket had been
\* retired and a later ticket had locked the Safe, and that lock is in place
AtomicCycleWitness ==
  \E key \in Keys :
    \E l \in late :
      /\ isLocked(locks, key) /\ locks[key].ticketId = l[3]
      /\ l[1] \in Removed
      /\ Len(queues[key]) >= 2

\* a confirmation answer of waiter p for a ticket that is retired, arriving
\* while a later ticket holds the lock of the Safe
LateAnswer(p) ==
  /\ FinishedAnswer(p)
  /\ isLocked(locks, safeAddress[p])
  /\ locks[safeAddress[p]].ticketId # current[p].ticketId

\* C23: a confirmation answer for ticket T that arrives after T was retired
\* and a later ticket T' locked the Safe removes neither the lock of T' nor
\* T' (nor any other ticket) from the waiting line
StaleConfirmationHarmless ==
  /\ [][\A p \in Procs :
          LateAnswer(p) =>
            /\ locks' = locks
            /\ queues' = queues
            /\ pc'[p] = "wait"]_vars
  /\ [](\A l \in late : l[1] < l[3] /\ l[1] \in Removed)

\* C23 witness: such an answer has arrived; the later ticket still holds
\* the lock and is the head of the waiting line, the waiter waits on
StaleConfirmationWitness ==
  \E p \in Procs :
    \E l \in late :
      /\ l[2] = ticketId[p] /\ pc[p] = "wait"
      /\ locks[safeAddress[p]].ticketId = l[3]
      /\ isNextInQueue(queues, safeAddress[p], l[3])
      /\ ConfirmationResults(safeAddress[p], l[3], locks[safeAddress[p]].nonce) = {}

\* the ticket of call p is the head of the waiting line of its unlocked Safe
HeadUnlocked(p) ==
  /\ ticketId[p] # NoTicket
  /\ ~isLocked(locks, safeAddress[p])
  /\ isNextInQueue(queues, safeAddress[p], ticketId[p])

\* the ticket of call p has been head-and-unlocked
WasHeadUnlocked(p) ==
  /\ ticketId[p] # NoTicket
  /\ HeadUnlocked(p) \/ PastWait(safeAddress[p], ticketId[p])

\* the turn wait of call p has returned
TurnWaitReturned(p) ==
  /\ ticketId[p] # NoTicket
  /\ PastWait(safeAddress[p], ticketId[p])

\* every ticket that is head-and-unlocked eventually locks or is retired
HoldersSettle == \A p \in Procs : []<>(~HeadUnlocked(p))

\* every locked submission is eventually confirmed by the relayer
SubmissionsConfirmed == \A key \in Keys : []<>(~LockedUnconfirmed(key))

\* every funds wait of executeSafeTx eventually returns
FundsArrive == \A p \in Procs : []<>(pc[p] # "funds")

\* C24 as stated: under fair scheduling, if every locked submission is
\* eventually confirmed and every admitted holder eventually locks or retires
\* its ticket, every enqueued ticket is eventually head-and-unlocked
EveryTicketAdmitted ==
  (HoldersSettle /\ SubmissionsConfirmed) =>
    \A p \in Procs : (ticketId[p] # NoTicket) ~> WasHeadUnlocked(p)

\* C24 amended: if in addition every funds wait of executeSafeTx eventually
\* returns, the turn wait of every enqueued ticket eventually returns
EveryFundedTicketAdmitted ==
  (HoldersSettle /\ SubmissionsConfirmed /\ FundsArrive) =>
    \A p \in Procs :
      (ticketId[p] # NoTicket) ~> TurnWaitReturned(p)

\* C24 witness: three tickets of one Safe were admitted one after the other
EveryFundedTicketWitness ==
  \E key \in Keys : Len(admitted[key]) = NumProcs /\ Len(lockLog[key]) >= 2


\* a poll attempt of p that asked the relayer ends without a finished
\* answer: the query threw, or it returned no result
UnfinishedAnswer(p) ==
  /\ pc[p] = "query" /\ pc'[p] # "query"
  /\ <<current[p].ticketId, ticketId[p]>> \notin answered' \ answered

\* C25: a poll attempt whose confirmation query throws or returns a number
\* of results other than one leaves every lock and waiting line as it was
\* and answers not ready: the caller goes on waiting, is not admitted and
\* receives no error
UnfinishedAttemptKeepsState ==
  [][\A p \in Procs :
       UnfinishedAnswer(p) =>
         /\ locks' = locks
         /\ queues' = queues
         /\ pc'[p] = "wait"
         /\ result' = result
         /\ admitted' = admitted]_vars

\* C25 witness: two calls are suspended on the confirmation query of the
\* same lock, behind each other in the line; the relayer lists the locked
\* transaction for neither query yet
UnfinishedAttemptWitness ==
  \E key \in Keys : \E p, q \in Waiters(key) :
    /\ p # q
    /\ pc[p] = "query" /\ pc[q] = "query"
    /\ current[p] = locks[key] /\ current[q] = locks[key]
    /\ LockedUnconfirmed(key)
    /\ Len(admitted[key]) >= 1


\* the step is made by call p on key inside queue(), inside
\* lockTransaction(), on the failure path of the POST, or is the end of a
\* poll attempt of p while its ticket waits on key
SequencerStep(p, key) ==
  /\ safeAddress'[p] = key
  /\ \/ /\ pc[p] = "start"
        /\ queues'[key] = Append(queues[key], ticketId'[p])
        /\ locks' = locks
     \/ /\ pc[p] = "post" /\ result'[p] = "txHash"
        /\ locks'[key].ticketId = ticketId[p]
        /\ queues' = queues
     \/ pc[p] = "post" /\ result'[p] = "null"
     \/ /\ pc[p] = "query" /\ pc'[p] = "wait"
        /\ ticketId[p] \in Range(queues[key])

\* C26: the lock and the waiting line of a Safe change only in a step of
\* queue(), lockTransaction(), the failure path or a waiter's poll attempt
\* on that Safe, never in a step of the ledger or the relayer; a locked
\* Safe has the locking ticket at the head of its line, and while no other
\* ticket waits on the Safe both stay as they are, whether or not the
\* relayer lists the transaction
NoBackgroundCompletion ==
  /\ [][\A key \in Keys :
          (queues'[key] # queues[key] \/ locks'[key] # locks[key]) =>
            /\ \E p \in Procs : SequencerStep(p, key)
            /\ chainNonce' = chainNonce
            /\ \A h \in Hashes : txs'[h].status \in {"mined", "listed"} => txs'[h] = txs[h]]_vars
  /\ [](\A key \in Keys :
          isLocked(locks, key) =>
            /\ queues[key] # <<>>
            /\ Head(queues[key]) = locks[key].ticketId)
  /\ [][\A key \in Keys :
          (isLocked(locks, key) /\ Waiters(key) = {}) =>
            /\ locks'[key] = locks[key]
            /\ Head(queues'[key]) = locks[key].ticketId]_vars

\* C26 witness: every call has returned, the relayer lists the transaction
\* of the last submission, and its Safe is still locked with the ticket at
\* the head of the line
NoBackgroundCompletionWitness ==
  \E key \in Keys :
    /\ isLocked(locks, key)
    /\ ~LockedUnconfirmed(key)
    /\ Head(queues[key]) = locks[key].ticketId
    /\ \A p \in Procs : pc[p] \in {"done", "threw"}
    /\ Len(lockLog[key]) >= 2


\* the step in which the failure path of call p's POST runs
FailurePath(p) == pc[p] = "post" /\ result'[p] = "null"

\* C27: the failure path of a ticket removes exactly that ticket: the line
\* of its Safe is the line before with that one ticket deleted and the
\* other tickets in their order, the other lines are as before, and no lock
\* owned by another ticket is removed
FailureRemovesOwnTicketOnly ==
  [][\A p \in Procs :
       FailurePath(p) =>
         LET key == safeAddress[p]
             t == ticketId[p]
         IN /\ t \in Range(queues[key])
            /\ Len(queues'[key]) = Len(queues[key]) - 1
            /\ queues'[key] = SelectSeq(queues[key], LAMBDA x : x # t)
            /\ \A k \in Keys \ {key} : queues'[k] = queues[k]
            /\ \A k \in Keys :
                 (isLocked(locks, k) /\ locks[k].ticketId # t) => locks'[k] = locks[k]
            /\ ~isLocked(locks', key)]_vars

\* C27 witness: the POST of the first ticket of a Safe was rejected while
\* two later tickets waited behind it; they are the line, in their order
FailureRemovesWitness ==
  \E p \in Procs :
    LET key == safeAddress[p]
    IN /\ result[p] = "null"
       /\ Len(queues[key]) = 2
       /\ ticketId[p] < queues[key][1]
       /\ queues[key][1] < queues[key][2]
       /\ ~isLocked(locks, key)


RECURSIVE Horner(_, _, _)
\* the number a string of decimal digits denotes, read from the left
Horner(s, i, acc) == IF i > Len(s) THEN acc ELSE Horner(s, i + 1, 10 * acc + s[i])

NumberOf(s) == Horner(s, 1, 0)

\* a decimal numeral without sign and without leading zero
IsNumeral(s) ==
  /\ Len(s) >= 1
  /\ \A i \in 1..Len(s) : s[i] \in 0..9
  /\ Len(s) > 1 => s[1] # 0

\* C28: requestNonce returns the numeral of the latest relayer
\* transaction's nonce plus one when the relayer answers with a result, and
\* the string of the Safe contract's nonce() as it is when the relayer
\* answers with no result or its request throws; the call throws only when
\* the contract's nonce() throws
RequestNonceResult ==
  /\ req.state = "returned" =>
       IF req.response.ok /\ Len(req.response.results) >= 1
         THEN /\ IsNumeral(req.value)
              /\ NumberOf(req.value) = NumberOf(req.response.results[1].nonce) + 1
         ELSE req.value = req.contract
  /\ req.state = "threw" => req.contractThrows
  /\ (req.state = "called" /\ ~req.contractThrows) => ENABLED NonceReturns

\* C28 witness: the relayer's latest nonce was 9 and the contract's nonce()
\* a different number; requestNonce returned "10"
RequestNonceWitness ==
  /\ req.state = "returned"
  /\ req.response.ok
  /\ req.response.results = <<[nonce |-> <<9>>]>>
  /\ req.value = <<1, 0>>
  /\ req.contract # req.value


\* call p is between the return of its turn wait and the answer to its POST
ReadsNonce(p) == pc[p] \in {"nonce", "post"}

\* C29: a call that requests its nonce and posts holds the head ticket of
\* an unlocked Safe and is the only such call on that Safe; the record it
\* locks with carries its ticket and the nonce it sent in the POST, and a
\* confirmation query is made with the txHash and nonce of a record that
\* was locked, which are those of the posted transaction; the nonce is the
\* number of the string requestNonce returns for what the relayer and the
\* Safe contract answer in the state in which it is called
NonceUnderAdmission ==
  /\ [][\A p \in Procs :
          (pc[p] = "nonce" /\ pc'[p] = "post") =>
            \E relayerFails \in BOOLEAN :
              nonce'[p] = parseInt(nonceReturned(
                            LatestResponse(safeAddress[p], relayerFails),
                            Decimal(chainNonce[safeAddress[p]])))]_vars
  /\ [](\A p \in Procs :
          ReadsNonce(p) =>
            /\ ~isLocked(locks, safeAddress[p])
            /\ isNextInQueue(queues, safeAddress[p], ticketId[p])
            /\ \A q \in Procs \ {p} :
                 ReadsNonce(q) => safeAddress[q] # safeAddress[p])
  /\ [][\A p \in Procs :
          (pc[p] = "post" /\ result'[p] = "txHash") =>
            LET key == safeAddress[p]
            IN /\ locks'[key].ticketId = ticketId[p]
               /\ locks'[key].nonce = nonce[p]
               /\ txs'[locks'[key].txHash] =
                    [key |-> key, nonce |-> nonce[p], status |-> "sent"]]_vars
  /\ [](\A key \in Keys :
          isLocked(locks, key) =>
            /\ txs[locks[key].txHash].key = key
            /\ txs[locks[key].txHash].nonce = locks[key].nonce)
  /\ [](\A p \in Procs :
          pc[p] = "query" =>
            /\ \E i \in 1..Len(lockLog[safeAddress[p]]) :
                 lockLog[safeAddress[p]][i] = current[p]
            /\ txs[current[p].txHash].key = safeAddress[p]
            /\ txs[current[p].txHash].nonce = current[p].nonce)

\* C29 witness: the second submission of a Safe locked with the nonce after
\* the first one's, and a third call asks the relayer about that record
NonceUnderAdmissionWitness ==
  \E key \in Keys : \E p \in Procs :
    /\ pc[p] = "query" /\ safeAddress[p] = key
    /\ Len(lockLog[key]) = 2
    /\ current[p] = lockLog[key][2]
    /\ lockLog[key][2].nonce = lockLog[key][1].nonce + 1
    /\ txs[current[p].txHash].nonce = current[p].nonce


\* the call p throws before it has a ticket
ThrowsBeforeQueue(p) == pc[p] = "start" /\ pc'[p] = "threw"

\* C30: a call that throws TOKEN_NOT_FOUND or the error of the cost
\* estimation throws before queue(): the step hands out no ticket and
\* changes no waiting line and no lock, the call never holds a ticket, and
\* only executeTokenSafeTx throws TOKEN_NOT_FOUND
FailureBeforeQueue ==
  /\ [][\A p \in Procs :
          ThrowsBeforeQueue(p) =>
            /\ result'[p] \in {"TOKEN_NOT_FOUND", "RequestError"}
            /\ queues' = queues
            /\ locks' = locks
            /\ lastTicketId' = lastTicketId
            /\ ticketId'[p] = NoTicket]_vars
  /\ [](\A p \in Procs :
          result[p] \in {"TOKEN_NOT_FOUND", "RequestError"} =>
            /\ ticketId[p] = NoTicket
            /\ pc[p] = "threw"
            /\ \A key \in Keys : \A i \in 1..Len(queues[key]) :
                 \E q \in Procs \ {p} : ticketId[q] = queues[key][i])
  /\ [](\A p \in Procs : result[p] = "TOKEN_NOT_FOUND" => kind[p] = "token")

\* C30 witness: one call found no token and one failed in the estimation
\* while the call made between them holds the lock of its Safe; its ticket
\* is the only one that was handed out
FailureBeforeQueueWitness ==
  \E p, q, r \in Procs :
    /\ result[p] = "TOKEN_NOT_FOUND"
    /\ result[q] = "RequestError" /\ kind[q] = "safe"
    /\ ticketId[r] # NoTicket
    /\ isLocked(locks, safeAddress[r])
    /\ locks[safeAddress[r]].ticketId = ticketId[r]
    /\ p < r /\ r < q
    /\ lastTicketId = 1


\* C31: an executeSafeTx call takes its ticket and then waits for funds; it
\* leaves the funds wait only into the turn wait and only on a balance that
\* is at least (dataGas + safeTxGas) * gasPrice, so it never reaches its
\* POST without such a read; for as long as it waits for funds its ticket
\* stays in the line of its Safe, and neither it nor any ticket queued
\* behind it on that Safe is admitted
FundsBeforeSubmission ==
  /\ [](~underfunded)
  /\ [](\A p \in Procs :
          pc[p] = "funds" =>
            /\ kind[p] = "safe"
            /\ ticketId[p] \in Range(queues[safeAddress[p]])
            /\ \A t \in Range(queues[safeAddress[p]]) :
                 t >= ticketId[p] => ~PastWait(safeAddress[p], t))
  /\ [][\A p \in Procs :
          /\ (kind'[p] = "safe" /\ pc[p] = "start" /\ pc'[p] \notin {"start", "threw"})
               => (pc'[p] = "funds" /\ ticketId'[p] \in Range(queues'[safeAddress'[p]]))
          /\ (pc[p] = "funds" /\ pc'[p] # "funds") => pc'[p] = "wait"
          /\ pc[p] = "funds" => ticketId[p] \in Range(queues'[safeAddress[p]])
          /\ (kind[p] = "safe" /\ ticketId[p] # NoTicket
                /\ txs'[ticketId[p]] # txs[ticketId[p]]
                /\ txs[ticketId[p]].status = "none")
               => (pc[p] = "post" /\ PastWait(safeAddress[p], ticketId[p]))]_vars

\* C31 witness: an executeSafeTx call waits for funds with its ticket at
\* the head of its unlocked Safe, a token call queued after it polls its
\* turn behind it, and an earlier executeSafeTx call has submitted
FundsBeforeSubmissionWitness ==
  \E p, q, r \in Procs :
    /\ pc[p] = "funds"
    /\ ~isLocked(locks, safeAddress[p])
    /\ isNextInQueue(queues, safeAddress[p], ticketId[p])
    /\ pc[q] = "wait" /\ kind[q] = "token"
    /\ safeAddress[q] = safeAddress[p]
    /\ ticketId[q] > ticketId[p]
    /\ kind[r] = "safe" /\ result[r] = "txHash"


\* the scenario, times in units of 10 ms: intervalMs = 10, timeoutMs = 50,
\* and an action whose results never satisfy the predicate
TimeoutScenario ==
  /\ poll.state # "Idle"
  /\ poll.intervalMs = 1 /\ poll.timeoutMs = 5
  /\ poll.predicate = {}

\* C32: a poll with a timeout makes at most timeoutMs / intervalMs + 1
\* attempts, and an attempt only starts while the deadline has not passed;
\* in the scenario the poll fails with the timeout, after at least one and
\* at most six attempts, the last of which started no later than the
\* deadline
TimeoutAfterFewAttempts ==
  /\ [](( poll.state # "Idle" /\ poll.timeoutMs # NoTimeout ) =>
          poll.attempts <= (poll.timeoutMs \div poll.intervalMs) + 1)
  /\ [][poll'.attempts > poll.attempts =>
          /\ poll.state = "Attempting"
          /\ poll.timeoutMs # NoTimeout => poll.elapsed <= poll.timeoutMs
          /\ poll'.attempts = poll.attempts + 1]_vars
  /\ [](TimeoutScenario => <>(poll.state = "TimedOut"))
  /\ []((TimeoutScenario /\ poll.state = "TimedOut") =>
          /\ poll.attempts \in 1..6
          /\ poll.lastStart <= 5
          /\ poll.elapsed > 5
          /\ poll.error.name = "TimeoutExceeded")

\* C32 witness: the scenario timed out after six attempts, the last one
\* started at the deadline
TimeoutScenarioWitness ==
  /\ TimeoutScenario
  /\ poll.state = "TimedOut"
  /\ poll.attempts = 6
  /\ poll.lastStart = 5


\* the states in which an invocation of the poller has ended
Ended == {"Satisfied", "TimedOut", "Abandoned"}

\* the steps of the state machine of one invocation
PollerSteps ==
  {<<"Idle", "Attempting">>, <<"Attempting", "Satisfied">>,
   <<"Attempting", "Retrying">>, <<"Retrying", "Attempting">>,
   <<"Attempting", "TimedOut">>,
   <<"Attempting", "Abandoned">>, <<"Retrying", "Abandoned">>}

\* C33: within an invocation the poller only takes the steps Idle ->
\* Attempting -> {Satisfied | Retrying -> Attempting | TimedOut}, or is
\* abandoned; once it is Satisfied, TimedOut or abandoned it makes no
\* attempt and changes nothing, the only step left being a new invocation;
\* an attempt is only made in Attempting; and a new invocation starts from
\* the idle record with its own options, whatever the one before left
PollerStateMachine ==
  /\ [][poll' # poll =>
          \/ <<poll.state, poll'.state>> \in PollerSteps
          \/ poll.state \in Ended /\ poll'.state = "Attempting"]_vars
  /\ [][poll.state \in Ended =>
          /\ poll' = poll \/ poll'.state = "Attempting"
          /\ poll'.state = "Attempting" =>
               poll' = [IdlePoll EXCEPT !.state = "Attempting",
                                        !.intervalMs = poll'.intervalMs,
                                        !.timeoutMs = poll'.timeoutMs,
                                        !.label = poll'.label,
                                        !.predicate = poll'.predicate,
                                        !.invocation = poll.invocation + 1]]_vars
  /\ [][poll'.attempts > poll.attempts =>
          poll.state = "Attempting" /\ poll'.state \in {"Satisfied", "Retrying"}]_vars
  /\ [](poll.state \in Ended =>
          ~ENABLED AttemptReturns /\ ~ENABLED AttemptThrows /\ ~ENABLED PollWaits)
  /\ [](/\ poll.state = "Satisfied" => poll.error = NoError
        /\ poll.state = "TimedOut" => poll.result = NoValue)

\* C33 witness: an invocation made after an earlier one had ended was
\* satisfied on its first attempt, at time 0 of its own clock
PollerStateMachineWitness ==
  /\ poll.invocation = 1
  /\ poll.state = "Satisfied"
  /\ poll.attempts = 1
  /\ poll.lastStart = 0
  /\ poll.timeoutMs = 1
  /\ poll.elapsed <= 1
  /\ poll.label = "Wait for newly added address to show up as Safe owner"


\* the transactions the call handed to the relayer
Relayed == {i \in 1..Len(sent) : sent[i].via = "relayer"}

\* the direct path of the funded variant has failed: the signed transaction
\* was rejected, or no transaction was signed
DirectFailed ==
  \/ sent = <<>>
  \/ sent[1].via = "direct" /\ sent[1].state = "rejected"

\* C34: the funded deploySafe hands a transaction to the relayer only after
\* its direct path failed with error code -32003 and the trust network of
\* the Safe had at least DEFAULT_TRUST_LIMIT trusts, and then it can do so;
\* with fewer trusts it throws SafeNotTrustError and any other error of the
\* direct path is thrown again with its code, in both cases with nothing
\* handed to the relayer
FundedFallback ==
  (op.fn = "deploySafe" /\ op.variant = "funded") =>
    /\ Relayed # {} =>
         /\ op.code = InsufficientFundsCode
         /\ op.trusts >= DEFAULT_TRUST_LIMIT
         /\ Relayed = {Len(sent)}
         /\ Len(sent) = 1 \/ (Len(sent) = 2 /\ sent[1].via = "direct"
                                /\ sent[1].state = "rejected")
    /\ op.result = "SafeNotTrustError" =>
         /\ op.pc = "threw"
         /\ op.code = InsufficientFundsCode
         /\ op.trusts < DEFAULT_TRUST_LIMIT
         /\ Relayed = {} /\ DirectFailed
    /\ op.result = "DirectError" =>
         /\ op.pc = "threw"
         /\ op.code \in ErrorCodes \ {InsufficientFundsCode}
         /\ Relayed = {} /\ DirectFailed
    /\ (op.code \in ErrorCodes \ {InsufficientFundsCode}) =>
         /\ op.pc \in {"catch", "threw"}
         /\ ~ENABLED DeployFallbackRelay /\ ~ENABLED DeployAsksTrusts
    /\ op.pc = "trusts" =>
         /\ op.code = InsufficientFundsCode /\ DirectFailed /\ Relayed = {}
         /\ op.trusts >= DEFAULT_TRUST_LIMIT <=> ENABLED DeployFallbackRelay
         /\ op.trusts < DEFAULT_TRUST_LIMIT <=> ENABLED DeployNotTrusted
    /\ (op.pc = "done" /\ Relayed = {}) =>
         /\ op.code = 0
         /\ sent = <<[tx |-> "createProxyWithNonce", via |-> "direct",
                      state |-> "resolved"]>>

\* C34 witness: the signed transaction was rejected with -32003, the Safe
\* has exactly DEFAULT_TRUST_LIMIT trusts, and the relayed transaction
\* resolved
FundedFallbackWitness ==
  /\ op.fn = "deploySafe" /\ op.variant = "funded" /\ op.pc = "done"
  /\ op.code = InsufficientFundsCode
  /\ op.trusts = DEFAULT_TRUST_LIMIT
  /\ Len(sent) = 2
  /\ sent[1] = [tx |-> "createProxyWithNonce", via |-> "direct", state |-> "rejected"]
  /\ sent[2] = [tx |-> "createProxyWithNonce", via |-> "relayer", state |-> "resolved"]

====
